---- MODULE Spec2Model ----
(***************************************************************************)
(* Content-gap engine of the SEO analysis tool (gap_finder.py,             *)
(* class ContentGapFinder).                                                *)
(*                                                                         *)
(* Strings are sequences of one-character strings, so that lower(),        *)
(* split() and the substring test `a in b` are computed, not assumed.      *)
(* Floats are exact rationals in units of 1/Denominator; every value the   *)
(* model computes (Jaccard ratios with a union of at most 8 tokens,        *)
(* avg_importance / 5, multiples of 0.1) is a whole number of units.       *)
(* A dict is the sequence of its items in insertion order.                 *)
(***************************************************************************)
EXTENDS Integers, Sequences, FiniteSets, TLC

\* ------------------------------------------------------------------------
\* Bounds of the model
\* ------------------------------------------------------------------------
MaxCompetitor == 3      \* most items of competitor_keywords
MaxUser == 2            \* most items of user_keywords
MaxCalls == 2           \* calls of find_missing_keywords that are recorded
MaxFrequency == 25      \* frequency ranges over 0..MaxFrequency
MaxDocFrequency == 6    \* document_frequency ranges over 0..MaxDocFrequency
MaxScore == 100         \* determine_priority is applied to scores 0..MaxScore

\* ------------------------------------------------------------------------
\* Fixed-point representation of floats
\* ------------------------------------------------------------------------
Denominator == 3 * 5 * 7 * 8

Fixed(n) == n * Denominator

Ratio(n, d) == (n * Denominator) \div d

Min(a, b) == IF a <= b THEN a ELSE b

\* ------------------------------------------------------------------------
\* Class constants (gap_finder.py:13-25) and priority thresholds (31-35)
\* ------------------------------------------------------------------------
FREQUENCY_SCORE_MULTIPLIER == 2
DOC_FREQ_SCORE_MULTIPLIER == 5
IMPORTANCE_SCORE_DIVISOR == 5
LENGTH_BONUS_MULTIPLIER == 2
RELEVANCE_BONUS_MULTIPLIER == 3
SIMILARITY_THRESHOLD == Ratio(3, 10)
PARTIAL_MATCH_BONUS == Ratio(1, 10)
MAX_PARTIAL_BONUS == Ratio(3, 10)

priority_thresholds == [high |-> 75, medium |-> 50, low |-> 25]

\* ------------------------------------------------------------------------
\* str.lower(), str.split() and the substring operator
\* ------------------------------------------------------------------------
UpperToLower ==
    ("A" :> "a") @@ ("B" :> "b") @@ ("C" :> "c") @@ ("D" :> "d") @@
    ("E" :> "e") @@ ("F" :> "f") @@ ("G" :> "g") @@ ("H" :> "h") @@
    ("I" :> "i") @@ ("J" :> "j") @@ ("K" :> "k") @@ ("L" :> "l") @@
    ("M" :> "m") @@ ("N" :> "n") @@ ("O" :> "o") @@ ("P" :> "p") @@
    ("Q" :> "q") @@ ("R" :> "r") @@ ("S" :> "s") @@ ("T" :> "t") @@
    ("U" :> "u") @@ ("V" :> "v") @@ ("W" :> "w") @@ ("X" :> "x") @@
    ("Y" :> "y") @@ ("Z" :> "z")

lower(s) ==
    [i \in 1..Len(s) |-> IF s[i] \in DOMAIN UpperToLower
                           THEN UpperToLower[s[i]] ELSE s[i]]

Whitespace == {" ", "\t", "\n", "\r"}

RECURSIVE SplitFrom(_, _, _)
\* words of s from position i on; cur is the word being read
SplitFrom(s, i, cur) ==
    IF i > Len(s)
      THEN IF cur = <<>> THEN <<>> ELSE <<cur>>
      ELSE IF s[i] \in Whitespace
             THEN IF cur = <<>>
                    THEN SplitFrom(s, i + 1, <<>>)
                    ELSE <<cur>> \o SplitFrom(s, i + 1, <<>>)
             ELSE SplitFrom(s, i + 1, Append(cur, s[i]))

split(s) == SplitFrom(s, 1, <<>>)

\* set(s.lower().split())
WordSet(s) ==
    LET words == split(lower(s))
    IN  {words[i] : i \in 1..Len(words)}

\* Python's `a in b` on strings
IsSubstring(a, b) ==
    \E i \in 0..(Len(b) - Len(a)) : SubSeq(b, i + 1, i + Len(a)) = a

\* ------------------------------------------------------------------------
\* Keywords the inputs are drawn from.  A keyword is held as a string; the
\* characters of each string are spelled out here for lower(), split() and
\* the substring test to work on.
\* ------------------------------------------------------------------------
KeywordList ==
    <<"seo optimization",
      "digital marketing",
      "content strategy",
      "Content  Strategy",
      "seo strategy">>

Keywords == {KeywordList[i] : i \in 1..Len(KeywordList)}

\* six spellings of one six-word keyword: different strings, equal word sets
VariantList ==
    <<"how to do a seo audit",
      "How To Do A SEO Audit",
      "how  to do a seo audit",
      "audit seo a do to how",
      "how to do a seo audit how",
      "HOW TO DO A SEO AUDIT">>

ScoreKeywords == Keywords \cup {VariantList[i] : i \in 1..Len(VariantList)}

KeywordIndex(k) == CHOOSE i \in 1..Len(KeywordList) : KeywordList[i] = k

\* keywords calculate_semantic_similarity is applied to: equal and unequal
\* word sets, different spellings, no words at all, words contained in words
SimilarityKeywordList ==
    <<"seo optimization",
      "seo strategy",
      "social media",
      "Seo  Optimization",
      "",
      "  ",
      "seo audit tool",
      "seo audit tool free",
      "market research",
      "marketing",
      "how to do a seo audit",
      "digital marketing">>

SimilarityKeywords == {SimilarityKeywordList[i] : i \in 1..Len(SimilarityKeywordList)}

\* keywords the classifiers are applied to
ClassifierKeywordList ==
    <<"buy best products",
      "BUY BEST PRODUCTS",
      "how to optimize seo",
      "services near me",
      "buy seo services",
      "what is seo",
      "login dashboard",
      "Login Dashboard",
      "seo",
      "SEO",
      "best",
      "seo audit",
      "Seo Audit",
      "best seo",
      "best seo tool",
      "seo audit tool",
      "seo audit tool free",
      "seo audit for blogs",
      "SEO Audit For Blogs",
      "content strategy",
      "digital marketing",
      "seo optimization",
      "best guide near me",
      "how to find seo near me",
      "purchase backlinks",
      "Purchase Backlinks",
      "seo shop",
      "facebook ads",
      "buyer guide",
      "buy login",
      "seo tutorial",
      "seo  audit",
      "",
      "  ",
      "keyword research services",
      "free seo audit tool">>

ClassifierKeywords == {ClassifierKeywordList[i] : i \in 1..Len(ClassifierKeywordList)}

AllKeywords == ScoreKeywords \cup SimilarityKeywords \cup ClassifierKeywords

\* ------------------------------------------------------------------------
\* Word count thresholds (gap_finder.py:23-25) and keyword classification
\* indicators (gap_finder.py:38-65)
\* ------------------------------------------------------------------------
SINGLE_WORD_COUNT == 1
TWO_WORD_COUNT == 2
LONG_TAIL_MIN_WORDS == 4

commercial_indicators ==
    {"buy", "purchase", "order", "shop", "sale", "deal", "discount",
     "cheap", "best", "top", "review", "compare", "vs", "versus"}

informational_indicators ==
    {"how", "what", "why", "when", "where", "guide", "tutorial", "tips",
     "learn", "understand", "explain", "definition"}

local_indicators ==
    {"near", "local", "nearby", "around", "close", "in", "at"}

transactional_indicators ==
    {"buy", "purchase", "order", "book", "hire", "contact", "quote",
     "price", "cost", "signup", "register"}

navigational_indicators ==
    {"login", "website", "homepage", "official", "store", "shop",
     "account", "dashboard"}

competitive_terms ==
    {"best", "top", "cheap", "free", "review", "buy", "online", "service",
     "company", "business", "professional"}

Characters ==
    ("seo optimization" :>
        <<"s","e","o"," ","o","p","t","i","m","i","z","a","t","i","o","n">>) @@
    ("digital marketing" :>
        <<"d","i","g","i","t","a","l"," ","m","a","r","k","e","t","i","n","g">>) @@
    ("content strategy" :>
        <<"c","o","n","t","e","n","t"," ","s","t","r","a","t","e","g","y">>) @@
    ("Content  Strategy" :>
        <<"C","o","n","t","e","n","t"," "," ","S","t","r","a","t","e","g","y">>) @@
    ("seo strategy" :>
        <<"s","e","o"," ","s","t","r","a","t","e","g","y">>) @@
    ("how to do a seo audit" :>
        <<"h","o","w"," ","t","o"," ","d","o"," ","a"," ","s","e","o"," ","a","u","d","i","t">>) @@
    ("How To Do A SEO Audit" :>
        <<"H","o","w"," ","T","o"," ","D","o"," ","A"," ","S","E","O"," ","A","u","d","i","t">>) @@
    ("how  to do a seo audit" :>
        <<"h","o","w"," "," ","t","o"," ","d","o"," ","a"," ","s","e","o"," ","a","u","d","i","t">>) @@
    ("audit seo a do to how" :>
        <<"a","u","d","i","t"," ","s","e","o"," ","a"," ","d","o"," ","t","o"," ","h","o","w">>) @@
    ("how to do a seo audit how" :>
        <<"h","o","w"," ","t","o"," ","d","o"," ","a"," ","s","e","o"," ","a","u","d","i","t"," ","h","o","w">>) @@
    ("HOW TO DO A SEO AUDIT" :>
        <<"H","O","W"," ","T","O"," ","D","O"," ","A"," ","S","E","O"," ","A","U","D","I","T">>) @@
    ("social media" :>
        <<"s","o","c","i","a","l"," ","m","e","d","i","a">>) @@
    ("Seo  Optimization" :>
        <<"S","e","o"," "," ","O","p","t","i","m","i","z","a","t","i","o","n">>) @@
    ("" :>
        <<>>) @@
    ("  " :>
        <<" "," ">>) @@
    ("seo audit tool" :>
        <<"s","e","o"," ","a","u","d","i","t"," ","t","o","o","l">>) @@
    ("seo audit tool free" :>
        <<"s","e","o"," ","a","u","d","i","t"," ","t","o","o","l"," ","f","r","e","e">>) @@
    ("market research" :>
        <<"m","a","r","k","e","t"," ","r","e","s","e","a","r","c","h">>) @@
    ("marketing" :>
        <<"m","a","r","k","e","t","i","n","g">>) @@
    ("buy best products" :>
        <<"b","u","y"," ","b","e","s","t"," ","p","r","o","d","u","c","t","s">>) @@
    ("BUY BEST PRODUCTS" :>
        <<"B","U","Y"," ","B","E","S","T"," ","P","R","O","D","U","C","T","S">>) @@
    ("how to optimize seo" :>
        <<"h","o","w"," ","t","o"," ","o","p","t","i","m","i","z","e"," ","s","e","o">>) @@
    ("services near me" :>
        <<"s","e","r","v","i","c","e","s"," ","n","e","a","r"," ","m","e">>) @@
    ("buy seo services" :>
        <<"b","u","y"," ","s","e","o"," ","s","e","r","v","i","c","e","s">>) @@
    ("what is seo" :>
        <<"w","h","a","t"," ","i","s"," ","s","e","o">>) @@
    ("login dashboard" :>
        <<"l","o","g","i","n"," ","d","a","s","h","b","o","a","r","d">>) @@
    ("Login Dashboard" :>
        <<"L","o","g","i","n"," ","D","a","s","h","b","o","a","r","d">>) @@
    ("seo" :>
        <<"s","e","o">>) @@
    ("SEO" :>
        <<"S","E","O">>) @@
    ("best" :>
        <<"b","e","s","t">>) @@
    ("seo audit" :>
        <<"s","e","o"," ","a","u","d","i","t">>) @@
    ("Seo Audit" :>
        <<"S","e","o"," ","A","u","d","i","t">>) @@
    ("best seo" :>
        <<"b","e","s","t"," ","s","e","o">>) @@
    ("best seo tool" :>
        <<"b","e","s","t"," ","s","e","o"," ","t","o","o","l">>) @@
    ("seo audit for blogs" :>
        <<"s","e","o"," ","a","u","d","i","t"," ","f","o","r"," ","b","l","o","g","s">>) @@
    ("SEO Audit For Blogs" :>
        <<"S","E","O"," ","A","u","d","i","t"," ","F","o","r"," ","B","l","o","g","s">>) @@
    ("best guide near me" :>
        <<"b","e","s","t"," ","g","u","i","d","e"," ","n","e","a","r"," ","m","e">>) @@
    ("how to find seo near me" :>
        <<"h","o","w"," ","t","o"," ","f","i","n","d"," ","s","e","o"," ","n","e","a","r"," ","m","e">>) @@
    ("purchase backlinks" :>
        <<"p","u","r","c","h","a","s","e"," ","b","a","c","k","l","i","n","k","s">>) @@
    ("Purchase Backlinks" :>
        <<"P","u","r","c","h","a","s","e"," ","B","a","c","k","l","i","n","k","s">>) @@
    ("seo shop" :>
        <<"s","e","o"," ","s","h","o","p">>) @@
    ("facebook ads" :>
        <<"f","a","c","e","b","o","o","k"," ","a","d","s">>) @@
    ("buyer guide" :>
        <<"b","u","y","e","r"," ","g","u","i","d","e">>) @@
    ("buy login" :>
        <<"b","u","y"," ","l","o","g","i","n">>) @@
    ("seo tutorial" :>
        <<"s","e","o"," ","t","u","t","o","r","i","a","l">>) @@
    ("seo  audit" :>
        <<"s","e","o"," "," ","a","u","d","i","t">>) @@
    ("keyword research services" :>
        <<"k","e","y","w","o","r","d"," ","r","e","s","e","a","r","c","h"," ","s","e","r","v","i","c","e","s">>) @@
    ("free seo audit tool" :>
        <<"f","r","e","e"," ","s","e","o"," ","a","u","d","i","t"," ","t","o","o","l">>) @@
    ("buy" :>
        <<"b","u","y">>) @@
    ("purchase" :>
        <<"p","u","r","c","h","a","s","e">>) @@
    ("order" :>
        <<"o","r","d","e","r">>) @@
    ("shop" :>
        <<"s","h","o","p">>) @@
    ("sale" :>
        <<"s","a","l","e">>) @@
    ("deal" :>
        <<"d","e","a","l">>) @@
    ("discount" :>
        <<"d","i","s","c","o","u","n","t">>) @@
    ("cheap" :>
        <<"c","h","e","a","p">>) @@
    ("top" :>
        <<"t","o","p">>) @@
    ("review" :>
        <<"r","e","v","i","e","w">>) @@
    ("compare" :>
        <<"c","o","m","p","a","r","e">>) @@
    ("vs" :>
        <<"v","s">>) @@
    ("versus" :>
        <<"v","e","r","s","u","s">>) @@
    ("how" :>
        <<"h","o","w">>) @@
    ("what" :>
        <<"w","h","a","t">>) @@
    ("why" :>
        <<"w","h","y">>) @@
    ("when" :>
        <<"w","h","e","n">>) @@
    ("where" :>
        <<"w","h","e","r","e">>) @@
    ("guide" :>
        <<"g","u","i","d","e">>) @@
    ("tutorial" :>
        <<"t","u","t","o","r","i","a","l">>) @@
    ("tips" :>
        <<"t","i","p","s">>) @@
    ("learn" :>
        <<"l","e","a","r","n">>) @@
    ("understand" :>
        <<"u","n","d","e","r","s","t","a","n","d">>) @@
    ("explain" :>
        <<"e","x","p","l","a","i","n">>) @@
    ("definition" :>
        <<"d","e","f","i","n","i","t","i","o","n">>) @@
    ("near" :>
        <<"n","e","a","r">>) @@
    ("local" :>
        <<"l","o","c","a","l">>) @@
    ("nearby" :>
        <<"n","e","a","r","b","y">>) @@
    ("around" :>
        <<"a","r","o","u","n","d">>) @@
    ("close" :>
        <<"c","l","o","s","e">>) @@
    ("in" :>
        <<"i","n">>) @@
    ("at" :>
        <<"a","t">>) @@
    ("book" :>
        <<"b","o","o","k">>) @@
    ("hire" :>
        <<"h","i","r","e">>) @@
    ("contact" :>
        <<"c","o","n","t","a","c","t">>) @@
    ("quote" :>
        <<"q","u","o","t","e">>) @@
    ("price" :>
        <<"p","r","i","c","e">>) @@
    ("cost" :>
        <<"c","o","s","t">>) @@
    ("signup" :>
        <<"s","i","g","n","u","p">>) @@
    ("register" :>
        <<"r","e","g","i","s","t","e","r">>) @@
    ("login" :>
        <<"l","o","g","i","n">>) @@
    ("website" :>
        <<"w","e","b","s","i","t","e">>) @@
    ("homepage" :>
        <<"h","o","m","e","p","a","g","e">>) @@
    ("official" :>
        <<"o","f","f","i","c","i","a","l">>) @@
    ("store" :>
        <<"s","t","o","r","e">>) @@
    ("account" :>
        <<"a","c","c","o","u","n","t">>) @@
    ("dashboard" :>
        <<"d","a","s","h","b","o","a","r","d">>) @@
    ("free" :>
        <<"f","r","e","e">>) @@
    ("online" :>
        <<"o","n","l","i","n","e">>) @@
    ("service" :>
        <<"s","e","r","v","i","c","e">>) @@
    ("company" :>
        <<"c","o","m","p","a","n","y">>) @@
    ("business" :>
        <<"b","u","s","i","n","e","s","s">>) @@
    ("professional" :>
        <<"p","r","o","f","e","s","s","i","o","n","a","l">>)

\* a function over a finite domain, held as the table of its values (f @@ <<>>
\* is f itself: the empty tuple adds nothing to its domain)
Tabulated(f) == f @@ <<>>

\* set(keyword.lower().split()) and len(keyword.split()), tabulated once
WordSetTable == Tabulated([k \in AllKeywords |-> WordSet(Characters[k])])

WordCountTable == Tabulated([k \in AllKeywords |-> Len(split(Characters[k]))])

word_set(keyword) == WordSetTable[keyword]

word_count(keyword) == WordCountTable[keyword]

\* len(words1.intersection(words2)) and len(words1.union(words2)) of the word
\* sets of two keywords, tabulated once
OverlapTable ==
    Tabulated([p \in AllKeywords \X AllKeywords |->
        Cardinality(word_set(p[1]) \cap word_set(p[2]))])

UnionTable ==
    Tabulated([p \in AllKeywords \X AllKeywords |->
        Cardinality(word_set(p[1]) \cup word_set(p[2]))])

word_overlap(keyword1, keyword2) == OverlapTable[<<keyword1, keyword2>>]

word_union(keyword1, keyword2) == UnionTable[<<keyword1, keyword2>>]

\* ------------------------------------------------------------------------
\* Dict arguments
\*   competitor_keywords: the sequence of its items, each item the key
\*     with the stats stored under it; avg_importance is a float.
\*   user_keywords: None, or the dict given by the sequence of its keys
\*     (no function of this module reads the values stored under them).
\* ------------------------------------------------------------------------
None == [none |-> TRUE]

Dict(ks) == [keys |-> ks]

\* truth value of `user_keywords` in `if user_keywords` / `if not user_keywords`
Truthy(d) == d # None /\ d.keys # <<>>

Range(s) == {s[i] : i \in 1..Len(s)}

RECURSIVE SumSeq(_)
SumSeq(s) == IF s = <<>> THEN 0 ELSE Head(s) + SumSeq(Tail(s))

RECURSIVE Ascending(_)
\* the members of a set of indices, in increasing order
Ascending(I) ==
    IF I = {} THEN <<>>
    ELSE LET m == CHOOSE m \in I : \A other \in I : m <= other
         IN  <<m>> \o Ascending(I \ {m})

\* calculate_semantic_similarity, had it counted `word1 in word2`
\* and `word2 in word1` separately
calculate_semantic_similarity_both_directions(keyword1, keyword2) ==
    LET words1 == word_set(keyword1)
        words2 == word_set(keyword2)
        intersection == word_overlap(keyword1, keyword2)
        union == word_union(keyword1, keyword2)
        jaccard_similarity == IF union > 0 THEN Ratio(intersection, union) ELSE 0
        partial_matches ==
            Cardinality({p \in words1 \X words2 : IsSubstring(p[1], p[2])})
              + Cardinality({p \in words1 \X words2 : IsSubstring(p[2], p[1])})
        partial_bonus == Min(partial_matches * PARTIAL_MATCH_BONUS, MAX_PARTIAL_BONUS)
    IN  IF words1 = {} \/ words2 = {}
          THEN 0
          ELSE Min(jaccard_similarity + partial_bonus, Fixed(1))

\* calculate_semantic_similarity, had it returned the sum without
\* the final min
calculate_semantic_similarity_unclamped(keyword1, keyword2) ==
    LET words1 == word_set(keyword1)
        words2 == word_set(keyword2)
        intersection == word_overlap(keyword1, keyword2)
        union == word_union(keyword1, keyword2)
        jaccard_similarity == IF union > 0 THEN Ratio(intersection, union) ELSE 0
        partial_matches ==
            Cardinality({p \in words1 \X words2 :
                            IsSubstring(p[1], p[2]) \/ IsSubstring(p[2], p[1])})
        partial_bonus == Min(partial_matches * PARTIAL_MATCH_BONUS, MAX_PARTIAL_BONUS)
    IN  IF words1 = {} \/ words2 = {}
          THEN 0
          ELSE jaccard_similarity + partial_bonus

\* calculate_semantic_similarity, had the final min been a max
calculate_semantic_similarity_max(keyword1, keyword2) ==
    LET words1 == word_set(keyword1)
        words2 == word_set(keyword2)
        intersection == word_overlap(keyword1, keyword2)
        union == word_union(keyword1, keyword2)
        jaccard_similarity == IF union > 0 THEN Ratio(intersection, union) ELSE 0
        partial_matches ==
            Cardinality({p \in words1 \X words2 :
                            IsSubstring(p[1], p[2]) \/ IsSubstring(p[2], p[1])})
        partial_bonus == Min(partial_matches * PARTIAL_MATCH_BONUS, MAX_PARTIAL_BONUS)
    IN  IF words1 = {} \/ words2 = {}
          THEN 0
          ELSE IF jaccard_similarity + partial_bonus >= Fixed(1)
                 THEN jaccard_similarity + partial_bonus
                 ELSE Fixed(1)

\* calculate_semantic_similarity, had it tested only
\* `word1 in word2`
calculate_semantic_similarity_one_direction(keyword1, keyword2) ==
    LET words1 == word_set(keyword1)
        words2 == word_set(keyword2)
        intersection == word_overlap(keyword1, keyword2)
        union == word_union(keyword1, keyword2)
        jaccard_similarity == IF union > 0 THEN Ratio(intersection, union) ELSE 0
        partial_matches ==
            Cardinality({p \in words1 \X words2 : IsSubstring(p[1], p[2])})
        partial_bonus == Min(partial_matches * PARTIAL_MATCH_BONUS, MAX_PARTIAL_BONUS)
    IN  IF words1 = {} \/ words2 = {}
          THEN 0
          ELSE Min(jaccard_similarity + partial_bonus, Fixed(1))

\* ------------------------------------------------------------------------
\* calculate_semantic_similarity (gap_finder.py:460-492)
\* ------------------------------------------------------------------------
calculate_semantic_similarity(keyword1, keyword2) ==
    LET words1 == word_set(keyword1)
        words2 == word_set(keyword2)
        intersection == word_overlap(keyword1, keyword2)
        union == word_union(keyword1, keyword2)
        jaccard_similarity == IF union > 0 THEN Ratio(intersection, union) ELSE 0
        partial_matches ==
            Cardinality({p \in words1 \X words2 :
                            IsSubstring(p[1], p[2]) \/ IsSubstring(p[2], p[1])})
        partial_bonus == Min(partial_matches * PARTIAL_MATCH_BONUS, MAX_PARTIAL_BONUS)
    IN  IF words1 = {} \/ words2 = {}
          THEN 0
          ELSE Min(jaccard_similarity + partial_bonus, Fixed(1))

\* calculate_semantic_similarity, tabulated once for the keywords above
SimilarityTable ==
    Tabulated([p \in Keywords \X Keywords |-> calculate_semantic_similarity(p[1], p[2])])

semantic_similarity(keyword1, keyword2) == SimilarityTable[<<keyword1, keyword2>>]

\* calculate_content_relevance, had it reused calculate_semantic_similarity
\* (with its partial-match bonus) instead of the plain word overlap
calculate_content_relevance_with_bonus(keyword, user_keywords) ==
    IF ~Truthy(user_keywords)
      THEN 0
      ELSE
        LET term(user_keyword) ==
                semantic_similarity(keyword, user_keyword) * RELEVANCE_BONUS_MULTIPLIER
            relevance_score ==
                SumSeq([i \in 1..Len(user_keywords.keys) |-> term(user_keywords.keys[i])])
        IN  Min(relevance_score, Fixed(15))

\* ------------------------------------------------------------------------
\* calculate_content_relevance (gap_finder.py:195-223)
\* ------------------------------------------------------------------------
calculate_content_relevance(keyword, user_keywords) ==
    IF ~Truthy(user_keywords)
      THEN 0
      ELSE
        LET term(user_keyword) ==
                LET overlap == word_overlap(keyword, user_keyword)
                    union == word_union(keyword, user_keyword)
                IN  IF union > 0
                      THEN Ratio(overlap, union) * RELEVANCE_BONUS_MULTIPLIER
                      ELSE 0
            relevance_score ==
                SumSeq([i \in 1..Len(user_keywords.keys) |-> term(user_keywords.keys[i])])
        IN  Min(relevance_score, Fixed(15))

\* calculate_opportunity_score, had the components and the total not been
\* clamped
calculate_opportunity_score_unclamped(frequency, document_frequency, avg_importance, keyword, user_keywords) ==
    Fixed(frequency * FREQUENCY_SCORE_MULTIPLIER)
      + Fixed(document_frequency * DOC_FREQ_SCORE_MULTIPLIER)
      + avg_importance \div IMPORTANCE_SCORE_DIVISOR
      + Fixed(word_count(keyword) * LENGTH_BONUS_MULTIPLIER)
      + calculate_content_relevance(keyword, user_keywords)

\* ------------------------------------------------------------------------
\* calculate_opportunity_score (gap_finder.py:158-193)
\* ------------------------------------------------------------------------
calculate_opportunity_score(frequency, document_frequency, avg_importance, keyword, user_keywords) ==
    LET frequency_score ==
            Min(Fixed(frequency * FREQUENCY_SCORE_MULTIPLIER), Fixed(30))
        doc_freq_score ==
            Min(Fixed(document_frequency * DOC_FREQ_SCORE_MULTIPLIER), Fixed(25))
        importance_score ==
            Min(avg_importance \div IMPORTANCE_SCORE_DIVISOR, Fixed(20))
        length_bonus ==
            Min(Fixed(word_count(keyword) * LENGTH_BONUS_MULTIPLIER), Fixed(10))
        relevance_bonus == calculate_content_relevance(keyword, user_keywords)
        total_score == frequency_score + doc_freq_score + importance_score
                         + length_bonus + relevance_bonus
    IN  Min(total_score, Fixed(100))

\* determine_priority, had the 'low' threshold opened a fourth bucket
determine_priority_low_threshold(opportunity_score) ==
    IF opportunity_score >= Fixed(priority_thresholds.high) THEN "high"
    ELSE IF opportunity_score >= Fixed(priority_thresholds.medium) THEN "medium"
    ELSE IF opportunity_score >= Fixed(priority_thresholds.low) THEN "low"
    ELSE "none"

\* ------------------------------------------------------------------------
\* determine_priority (gap_finder.py:225-240)
\* ------------------------------------------------------------------------
determine_priority(opportunity_score) ==
    IF opportunity_score >= Fixed(priority_thresholds.high) THEN "high"
    ELSE IF opportunity_score >= Fixed(priority_thresholds.medium) THEN "medium"
    ELSE "low"

\* ------------------------------------------------------------------------
\* any(indicator in keyword_lower for indicator in indicators)
\* (gap_finder.py:277-286, 315, 340-344)
\* ------------------------------------------------------------------------
any_indicator_in(indicators, keyword) ==
    LET keyword_lower == lower(Characters[keyword])
    IN  \E indicator \in indicators : IsSubstring(Characters[indicator], keyword_lower)

\* classify_keyword_type, had it looked for informational indicators before
\* local ones
classify_keyword_type_informational_first(keyword) ==
    IF any_indicator_in(commercial_indicators, keyword) THEN "commercial"
    ELSE IF any_indicator_in(informational_indicators, keyword) THEN "informational"
    ELSE IF any_indicator_in(local_indicators, keyword) THEN "local"
    ELSE IF word_count(keyword) = SINGLE_WORD_COUNT THEN "head"
    ELSE IF word_count(keyword) = TWO_WORD_COUNT THEN "body"
    ELSE "long_tail"

\* ------------------------------------------------------------------------
\* classify_keyword_type (gap_finder.py:260-294)
\* ------------------------------------------------------------------------
classify_keyword_type(keyword) ==
    IF any_indicator_in(commercial_indicators, keyword) THEN "commercial"
    ELSE IF any_indicator_in(local_indicators, keyword) THEN "local"
    ELSE IF any_indicator_in(informational_indicators, keyword) THEN "informational"
    ELSE IF word_count(keyword) = SINGLE_WORD_COUNT THEN "head"
    ELSE IF word_count(keyword) = TWO_WORD_COUNT THEN "body"
    ELSE "long_tail"

\* estimate_keyword_difficulty, had it looked at the long-tail length before
\* the competitive terms
estimate_keyword_difficulty_long_tail_first(keyword) ==
    IF word_count(keyword) = SINGLE_WORD_COUNT THEN "high"
    ELSE IF word_count(keyword) >= LONG_TAIL_MIN_WORDS THEN "low"
    ELSE IF any_indicator_in(competitive_terms, keyword)
           THEN IF word_count(keyword) <= TWO_WORD_COUNT THEN "high" ELSE "medium"
    ELSE "medium"

\* ------------------------------------------------------------------------
\* estimate_keyword_difficulty (gap_finder.py:296-325)
\* ------------------------------------------------------------------------
estimate_keyword_difficulty(keyword) ==
    IF word_count(keyword) = SINGLE_WORD_COUNT THEN "high"
    ELSE IF any_indicator_in(competitive_terms, keyword)
           THEN IF word_count(keyword) <= TWO_WORD_COUNT THEN "high" ELSE "medium"
    ELSE IF word_count(keyword) >= LONG_TAIL_MIN_WORDS THEN "low"
    ELSE "medium"

\* classify_search_intent, had it looked for navigational indicators first
classify_search_intent_navigational_first(keyword) ==
    IF any_indicator_in(navigational_indicators, keyword) THEN "navigational"
    ELSE IF any_indicator_in(transactional_indicators, keyword) THEN "transactional"
    ELSE IF any_indicator_in(informational_indicators, keyword) THEN "informational"
    ELSE "commercial"

\* ------------------------------------------------------------------------
\* classify_search_intent (gap_finder.py:327-348)
\* ------------------------------------------------------------------------
classify_search_intent(keyword) ==
    IF any_indicator_in(transactional_indicators, keyword) THEN "transactional"
    ELSE IF any_indicator_in(navigational_indicators, keyword) THEN "navigational"
    ELSE IF any_indicator_in(informational_indicators, keyword) THEN "informational"
    ELSE "commercial"

\* ------------------------------------------------------------------------
\* analyze_keyword_characteristics (gap_finder.py:242-258)
\* ------------------------------------------------------------------------
analyze_keyword_characteristics(keyword) ==
    [type |-> classify_keyword_type(keyword),
     difficulty |-> estimate_keyword_difficulty(keyword),
     intent |-> classify_search_intent(keyword)]

\* the three classifiers, tabulated once for the keywords above
TypeTable == Tabulated([k \in AllKeywords |-> classify_keyword_type(k)])

IntentTable == Tabulated([k \in AllKeywords |-> classify_search_intent(k)])

CharacteristicsTable == Tabulated([k \in AllKeywords |-> analyze_keyword_characteristics(k)])

keyword_characteristics(keyword) == CharacteristicsTable[keyword]

\* generate_keyword_recommendations, had it given generic advice when no rule fired
generate_keyword_recommendations_with_default(keyword, competitor_data) ==
    LET frequency == competitor_data.frequency
        document_frequency == competitor_data.document_frequency
        keyword_type == TypeTable[keyword]
        intent == IntentTable[keyword]
        recommendations ==
            (IF frequency > 10 THEN <<"High-priority target">> ELSE <<>>)
            \o (IF document_frequency > 3 THEN <<"Strong opportunity">> ELSE <<>>)
            \o (IF keyword_type \in {"informational", "commercial", "local", "long_tail"}
                  THEN <<"Content type advice">> ELSE <<>>)
            \o (IF intent \in {"transactional", "informational"}
                  THEN <<"Intent advice">> ELSE <<>>)
    IN  IF recommendations = <<>> THEN <<"Consider targeting this keyword">>
        ELSE recommendations

\* ------------------------------------------------------------------------
\* generate_keyword_recommendations (gap_finder.py:350-392)
\* ------------------------------------------------------------------------
generate_keyword_recommendations(keyword, competitor_data) ==
    LET frequency == competitor_data.frequency
        document_frequency == competitor_data.document_frequency
        keyword_type == TypeTable[keyword]
        intent == IntentTable[keyword]
    IN  (IF frequency > 10
           THEN <<"High-priority target: appears " \o ToString(frequency)
                    \o " times across competitor sites">>
           ELSE <<>>)
        \o (IF document_frequency > 3
              THEN <<"Strong opportunity: used by " \o ToString(document_frequency)
                       \o " different competitors">>
              ELSE <<>>)
        \o (IF keyword_type = "informational"
              THEN <<"Create comprehensive guide or tutorial content">>
            ELSE IF keyword_type = "commercial"
              THEN <<"Optimize product/service pages and create comparison content">>
            ELSE IF keyword_type = "local"
              THEN <<"Optimize for local SEO and create location-specific content">>
            ELSE IF keyword_type = "long_tail"
              THEN <<"Target with specific, detailed content pages">>
            ELSE <<>>)
        \o (IF intent = "transactional"
              THEN <<"Focus on conversion-optimized landing pages">>
            ELSE IF intent = "informational"
              THEN <<"Create educational blog posts or resource pages">>
            ELSE <<>>)

\* find_related_user_keywords, had it returned the whole list
find_related_user_keywords_untruncated(keyword, user_keywords) ==
    IF ~Truthy(user_keywords)
      THEN <<>>
      ELSE
        LET related(i) ==
                LET overlap == word_overlap(keyword, user_keywords.keys[i])
                IN  /\ overlap > 0
                    /\ Ratio(overlap, word_union(keyword, user_keywords.keys[i]))
                         >= SIMILARITY_THRESHOLD
            idx == Ascending({i \in 1..Len(user_keywords.keys) : related(i)})
            related_keywords == [j \in 1..Len(idx) |-> user_keywords.keys[idx[j]]]
        IN  related_keywords

\* ------------------------------------------------------------------------
\* find_related_user_keywords (gap_finder.py:394-421)
\* ------------------------------------------------------------------------
find_related_user_keywords(keyword, user_keywords) ==
    IF ~Truthy(user_keywords)
      THEN <<>>
      ELSE
        LET related(i) ==
                LET overlap == word_overlap(keyword, user_keywords.keys[i])
                IN  /\ overlap > 0
                    /\ Ratio(overlap, word_union(keyword, user_keywords.keys[i]))
                         >= SIMILARITY_THRESHOLD
            idx == Ascending({i \in 1..Len(user_keywords.keys) : related(i)})
            related_keywords == [j \in 1..Len(idx) |-> user_keywords.keys[idx[j]]]
        IN  SubSeq(related_keywords, 1, Min(5, Len(related_keywords)))

\* analyze_keyword_opportunity, had it taken the priority from the score
\* without the relevance bonus
analyze_keyword_opportunity_priority_before_relevance(keyword, competitor_data, user_keywords) ==
    LET frequency == competitor_data.frequency
        document_frequency == competitor_data.document_frequency
        avg_importance == competitor_data.avg_importance
        opportunity_score ==
            calculate_opportunity_score(frequency, document_frequency,
                                        avg_importance, keyword, user_keywords)
        priority ==
            determine_priority(
                calculate_opportunity_score(frequency, document_frequency,
                                            avg_importance, keyword, None))
        characteristics == keyword_characteristics(keyword)
        recommendations == generate_keyword_recommendations(keyword, competitor_data)
    IN  [keyword |-> keyword,
         opportunity_score |-> opportunity_score,
         priority |-> priority,
         competitor_frequency |-> frequency,
         found_in_sites |-> document_frequency,
         avg_competitor_importance |-> avg_importance,
         keyword_type |-> characteristics.type,
         word_count |-> word_count(keyword),
         estimated_difficulty |-> characteristics.difficulty,
         search_intent |-> characteristics.intent,
         recommendations |-> recommendations,
         related_user_keywords |-> find_related_user_keywords(keyword, user_keywords)]

\* ------------------------------------------------------------------------
\* analyze_keyword_opportunity (gap_finder.py:109-156)
\* ------------------------------------------------------------------------
analyze_keyword_opportunity(keyword, competitor_data, user_keywords) ==
    LET frequency == competitor_data.frequency
        document_frequency == competitor_data.document_frequency
        avg_importance == competitor_data.avg_importance
        opportunity_score ==
            calculate_opportunity_score(frequency, document_frequency,
                                        avg_importance, keyword, user_keywords)
        priority == determine_priority(opportunity_score)
        characteristics == keyword_characteristics(keyword)
        recommendations == generate_keyword_recommendations(keyword, competitor_data)
    IN  [keyword |-> keyword,
         opportunity_score |-> opportunity_score,
         priority |-> priority,
         competitor_frequency |-> frequency,
         found_in_sites |-> document_frequency,
         avg_competitor_importance |-> avg_importance,
         keyword_type |-> characteristics.type,
         word_count |-> word_count(keyword),
         estimated_difficulty |-> characteristics.difficulty,
         search_intent |-> characteristics.intent,
         recommendations |-> recommendations,
         related_user_keywords |-> find_related_user_keywords(keyword, user_keywords)]

\* gap_opportunity['gap_type'] = 'semantic' (gap_finder.py:455)
tagged_semantic(gap_opportunity) ==
    [keyword |-> gap_opportunity.keyword,
     opportunity_score |-> gap_opportunity.opportunity_score,
     priority |-> gap_opportunity.priority,
     competitor_frequency |-> gap_opportunity.competitor_frequency,
     found_in_sites |-> gap_opportunity.found_in_sites,
     avg_competitor_importance |-> gap_opportunity.avg_competitor_importance,
     keyword_type |-> gap_opportunity.keyword_type,
     word_count |-> gap_opportunity.word_count,
     estimated_difficulty |-> gap_opportunity.estimated_difficulty,
     search_intent |-> gap_opportunity.search_intent,
     recommendations |-> gap_opportunity.recommendations,
     related_user_keywords |-> gap_opportunity.related_user_keywords,
     gap_type |-> "semantic"]

\* find_semantic_gaps, had it skipped the keywords that are directly missing
find_semantic_gaps_deduplicated(competitor_keywords, user_keywords, similarity_threshold) ==
    IF ~Truthy(user_keywords)
      THEN <<>>
      ELSE
        LET has_similar(i) ==
                \E j \in 1..Len(user_keywords.keys) :
                    semantic_similarity(competitor_keywords[i].keyword,
                                        user_keywords.keys[j])
                      >= similarity_threshold
            gap(i) == /\ ~has_similar(i)
                      /\ competitor_keywords[i].keyword \in Range(user_keywords.keys)
            idx == Ascending({i \in 1..Len(competitor_keywords) : gap(i)})
        IN  [j \in 1..Len(idx) |->
                tagged_semantic(
                    analyze_keyword_opportunity(competitor_keywords[idx[j]].keyword,
                                                competitor_keywords[idx[j]],
                                                user_keywords))]

\* find_semantic_gaps, had it not returned early on an empty user_keywords
find_semantic_gaps_unguarded(competitor_keywords, user_keywords, similarity_threshold) ==
    LET user_keys == IF Truthy(user_keywords) THEN user_keywords.keys ELSE <<>>
        has_similar(i) ==
            \E j \in 1..Len(user_keys) :
                semantic_similarity(competitor_keywords[i].keyword, user_keys[j])
                  >= similarity_threshold
        gap(i) == ~has_similar(i)
        idx == Ascending({i \in 1..Len(competitor_keywords) : gap(i)})
    IN  [j \in 1..Len(idx) |->
            tagged_semantic(
                analyze_keyword_opportunity(competitor_keywords[idx[j]].keyword,
                                            competitor_keywords[idx[j]],
                                            user_keywords))]

\* find_semantic_gaps, had a user keyword counted as similar only above the
\* threshold
find_semantic_gaps_strictly_above(competitor_keywords, user_keywords, similarity_threshold) ==
    IF ~Truthy(user_keywords)
      THEN <<>>
      ELSE
        LET has_similar(i) ==
                \E j \in 1..Len(user_keywords.keys) :
                    semantic_similarity(competitor_keywords[i].keyword,
                                        user_keywords.keys[j])
                      > similarity_threshold
            gap(i) == ~has_similar(i)
            idx == Ascending({i \in 1..Len(competitor_keywords) : gap(i)})
        IN  [j \in 1..Len(idx) |->
                tagged_semantic(
                    analyze_keyword_opportunity(competitor_keywords[idx[j]].keyword,
                                                competitor_keywords[idx[j]],
                                                user_keywords))]

\* ------------------------------------------------------------------------
\* find_semantic_gaps (gap_finder.py:423-458)
\* ------------------------------------------------------------------------
find_semantic_gaps(competitor_keywords, user_keywords, similarity_threshold) ==
    IF ~Truthy(user_keywords)
      THEN <<>>
      ELSE
        LET has_similar(i) ==
                \E j \in 1..Len(user_keywords.keys) :
                    semantic_similarity(competitor_keywords[i].keyword,
                                        user_keywords.keys[j])
                      >= similarity_threshold
            gap(i) == ~has_similar(i)
            idx == Ascending({i \in 1..Len(competitor_keywords) : gap(i)})
        IN  [j \in 1..Len(idx) |->
                tagged_semantic(
                    analyze_keyword_opportunity(competitor_keywords[idx[j]].keyword,
                                                competitor_keywords[idx[j]],
                                                user_keywords))]

\* ------------------------------------------------------------------------
\* list.sort(key=lambda x: x['opportunity_score'], reverse=True)
\* (gap_finder.py:103): stable, descending
\* ------------------------------------------------------------------------
RECURSIVE InsertBeforeEqual(_, _)
\* InsertByScore, had x gone in front of the elements with its own score
InsertBeforeEqual(sorted, x) ==
    IF sorted = <<>> THEN <<x>>
    ELSE IF Head(sorted).opportunity_score > x.opportunity_score
           THEN <<Head(sorted)>> \o InsertBeforeEqual(Tail(sorted), x)
           ELSE <<x>> \o sorted

RECURSIVE InsertByScore(_, _)
\* x goes behind every element whose score is at least its own
InsertByScore(sorted, x) ==
    IF sorted = <<>> THEN <<x>>
    ELSE IF Head(sorted).opportunity_score >= x.opportunity_score
           THEN <<Head(sorted)>> \o InsertByScore(Tail(sorted), x)
           ELSE <<x>> \o sorted

RECURSIVE InsertAscending(_, _)
InsertAscending(sorted, x) ==
    IF sorted = <<>> THEN <<x>>
    ELSE IF Head(sorted).opportunity_score <= x.opportunity_score
           THEN <<Head(sorted)>> \o InsertAscending(Tail(sorted), x)
           ELSE <<x>> \o sorted

RECURSIVE SortAscendingFrom(_, _, _)
SortAscendingFrom(list, i, sorted) ==
    IF i > Len(list) THEN sorted
    ELSE SortAscendingFrom(list, i + 1, InsertAscending(sorted, list[i]))

\* the sort, had reverse=True been left out
sort_by_score(list) == SortAscendingFrom(list, 1, <<>>)

RECURSIVE SortByScoreFrom(_, _, _)
SortByScoreFrom(list, i, sorted) ==
    IF i > Len(list) THEN sorted
    ELSE SortByScoreFrom(list, i + 1, InsertByScore(sorted, list[i]))

sort_by_score_reverse(list) == SortByScoreFrom(list, 1, <<>>)

\* ------------------------------------------------------------------------
\* Iteration order of a set of strings (gap_finder.py:90-93).  A set is
\* iterated in the order of its hash-table slots; the slot of a string
\* depends on the interpreter's hash seed, which is drawn when the process
\* starts and stays fixed until it ends.
\* ------------------------------------------------------------------------
HashModulus == Len(KeywordList) + 2

HashSeeds == {1, 3, HashModulus - 1}

\* the seed of the first run; every later run draws another one
FirstSeed == CHOOSE seed \in HashSeeds : \A other \in HashSeeds : seed <= other

Slot(seed, k) == (KeywordIndex(k) * seed) % HashModulus

RECURSIVE IterationOrder(_, _)
IterationOrder(seed, S) ==
    IF S = {} THEN <<>>
    ELSE LET first == CHOOSE k \in S : \A other \in S : Slot(seed, k) <= Slot(seed, other)
         IN  <<first>> \o IterationOrder(seed, S \ {first})

\* ------------------------------------------------------------------------
\* The steps of find_missing_keywords (gap_finder.py:67-107)
\* ------------------------------------------------------------------------
CompetitorData(competitor_keywords, keyword) ==
    LET i == CHOOSE i \in 1..Len(competitor_keywords) :
                 competitor_keywords[i].keyword = keyword
    IN  competitor_keywords[i]

\* directly_missing_keywords, had the user's terms not been taken away
all_competitor_keywords(competitor_keywords, user_keywords, seed) ==
    IterationOrder(seed, {competitor_keywords[i].keyword :
                             i \in 1..Len(competitor_keywords)})

\* lines 84-90, and the order in which line 93 visits the set
directly_missing_keywords(competitor_keywords, user_keywords, seed) ==
    LET competitor_terms == {competitor_keywords[i].keyword :
                                i \in 1..Len(competitor_keywords)}
        user_terms == IF Truthy(user_keywords) THEN Range(user_keywords.keys) ELSE {}
    IN  IterationOrder(seed, competitor_terms \ user_terms)

\* lines 93-96: the records of the directly missing keywords, visited in
\* the order `missing`
opportunities_of(missing, competitor_keywords, user_keywords) ==
    [i \in 1..Len(missing) |->
        analyze_keyword_opportunity(
            missing[i],
            CompetitorData(competitor_keywords, missing[i]),
            user_keywords)]

\* lines 100-107: the two lists joined and sorted
sorted_opportunities(direct, gaps) == sort_by_score_reverse(direct \o gaps)

\* ------------------------------------------------------------------------
\* Exceptions of find_missing_keywords and its helpers.  f_raises gives the
\* exception that f raises on its arguments, NoError when it returns: a
\* division raises ZeroDivisionError when it is reached with divisor 0, a
\* subscript raises KeyError when the key is absent, a method call on None
\* raises AttributeError.  Statements raise in the order they execute.
\* ------------------------------------------------------------------------
NoError == "none"

FirstError(outcomes) ==
    IF \A i \in 1..Len(outcomes) : outcomes[i] = NoError
      THEN NoError
      ELSE outcomes[CHOOSE i \in 1..Len(outcomes) :
                        /\ outcomes[i] # NoError
                        /\ \A j \in 1..(i - 1) : outcomes[j] = NoError]

divide_raises(reached, divisor) ==
    IF reached /\ divisor = 0 THEN "ZeroDivisionError" ELSE NoError

subscript_raises(key, keys) ==
    IF key \in keys THEN NoError ELSE "KeyError"

\* user_keywords.keys() (gap_finder.py:85, 212, 411, 446)
keys_raises(user_keywords) ==
    IF user_keywords = None THEN "AttributeError" ELSE NoError

keys_of(user_keywords) ==
    IF user_keywords = None THEN <<>> ELSE user_keywords.keys

\* calculate_content_relevance, had it not returned early on a user_keywords
\* that is None or empty
calculate_content_relevance_raises_unguarded(keyword, user_keywords) ==
    FirstError(
        <<keys_raises(user_keywords)>> \o
        [i \in 1..Len(keys_of(user_keywords)) |->
            LET union == word_union(keyword, keys_of(user_keywords)[i])
            IN  divide_raises(union > 0, union)])

\* gap_finder.py:206-223: `if not user_keywords: return 0`, then one division
\* per user keyword under `if union > 0`
calculate_content_relevance_raises(keyword, user_keywords) ==
    IF ~Truthy(user_keywords)
      THEN NoError
      ELSE FirstError(
               <<keys_raises(user_keywords)>> \o
               [i \in 1..Len(user_keywords.keys) |->
                   LET union == word_union(keyword, user_keywords.keys[i])
                   IN  divide_raises(union > 0, union)])

\* gap_finder.py:174-193: the division by IMPORTANCE_SCORE_DIVISOR, then the
\* relevance bonus
calculate_opportunity_score_raises(keyword, user_keywords) ==
    FirstError(<<divide_raises(TRUE, IMPORTANCE_SCORE_DIVISOR),
                 calculate_content_relevance_raises(keyword, user_keywords)>>)

\* gap_finder.py:235-240: the two subscripts of priority_thresholds
determine_priority_raises ==
    FirstError(<<subscript_raises("high", DOMAIN priority_thresholds),
                 subscript_raises("medium", DOMAIN priority_thresholds)>>)

\* gap_finder.py:405-421: the division is reached under `if overlap > 0`
find_related_user_keywords_raises(keyword, user_keywords) ==
    IF ~Truthy(user_keywords)
      THEN NoError
      ELSE FirstError(
               <<keys_raises(user_keywords)>> \o
               [i \in 1..Len(user_keywords.keys) |->
                   divide_raises(word_overlap(keyword, user_keywords.keys[i]) > 0,
                                 word_union(keyword, user_keywords.keys[i]))])

\* gap_finder.py:124-156: competitor_data.get(...) has a default and never
\* raises; the subscripts of characteristics are the keys of the literal of
\* analyze_keyword_characteristics (lines 252-256)
analyze_keyword_opportunity_raises(keyword, competitor_data, user_keywords) ==
    FirstError(
        <<calculate_opportunity_score_raises(keyword, user_keywords),
          determine_priority_raises,
          subscript_raises("type", DOMAIN keyword_characteristics(keyword)),
          subscript_raises("difficulty", DOMAIN keyword_characteristics(keyword)),
          subscript_raises("intent", DOMAIN keyword_characteristics(keyword)),
          find_related_user_keywords_raises(keyword, user_keywords)>>)

\* gap_finder.py:471-482: `if not words1 or not words2: return 0`, then
\* `intersection / union if union > 0 else 0`
calculate_semantic_similarity_raises(keyword1, keyword2) ==
    IF word_count(keyword1) = 0 \/ word_count(keyword2) = 0
      THEN NoError
      ELSE divide_raises(word_union(keyword1, keyword2) > 0,
                         word_union(keyword1, keyword2))

\* gap_finder.py:437-458: the inner loop stops at the first similar user
\* keyword; a keyword with none is analysed
find_semantic_gaps_raises(competitor_keywords, user_keywords, similarity_threshold) ==
    IF ~Truthy(user_keywords)
      THEN NoError
      ELSE
        LET similar(i, j) ==
                semantic_similarity(competitor_keywords[i].keyword, user_keywords.keys[j])
                  >= similarity_threshold
            compared(i) ==
                {j \in 1..Len(user_keywords.keys) : \A earlier \in 1..(j - 1) : ~similar(i, earlier)}
            has_similar(i) == \E j \in 1..Len(user_keywords.keys) : similar(i, j)
        IN  FirstError(
                <<keys_raises(user_keywords)>> \o
                [i \in 1..Len(competitor_keywords) |->
                    FirstError(
                        [j \in 1..Cardinality(compared(i)) |->
                            calculate_semantic_similarity_raises(
                                competitor_keywords[i].keyword, user_keywords.keys[j])]
                        \o <<IF has_similar(i)
                               THEN NoError
                               ELSE analyze_keyword_opportunity_raises(
                                        competitor_keywords[i].keyword,
                                        competitor_keywords[i], user_keywords)>>)])

\* gap_finder.py:103: the sort key subscripts every record
sort_raises(list) ==
    FirstError([i \in 1..Len(list) |->
                   subscript_raises("opportunity_score", DOMAIN list[i])])

\* gap_finder.py:81-107
find_missing_keywords_raises(competitor_keywords, user_keywords, similarity_threshold, seed) ==
    LET competitor_terms == {competitor_keywords[i].keyword :
                                i \in 1..Len(competitor_keywords)}
        missing == directly_missing_keywords(competitor_keywords, user_keywords, seed)
        before_sort ==
            FirstError(
                [i \in 1..Len(missing) |->
                    FirstError(
                        <<subscript_raises(missing[i], competitor_terms),
                          analyze_keyword_opportunity_raises(
                              missing[i],
                              CompetitorData(competitor_keywords, missing[i]),
                              user_keywords)>>)]
                \o <<find_semantic_gaps_raises(competitor_keywords, user_keywords,
                                               similarity_threshold)>>)
    IN  IF before_sort # NoError
          THEN before_sort
          ELSE sort_raises(
                   opportunities_of(missing, competitor_keywords, user_keywords)
                   \o find_semantic_gaps(competitor_keywords, user_keywords,
                                         similarity_threshold))

\* ------------------------------------------------------------------------
\* generate_content_strategy (gap_finder.py:494-543) and generate_action_plan
\* (gap_finder.py:545-581)
\* ------------------------------------------------------------------------
DEFAULT_TOP_N == 20

\* missing_keywords[:top_n] for top_n >= 0
top_slice(missing_keywords, top_n) ==
    SubSeq(missing_keywords, 1, Min(top_n, Len(missing_keywords)))

\* the list a defaultdict(list) holds under `key` after the grouping loop
group(top_opportunities, field, key) ==
    SelectSeq(top_opportunities, LAMBDA opportunity : opportunity[field] = key)

RECURSIVE group_keys_from(_, _, _, _)
group_keys_from(top_opportunities, field, i, seen) ==
    IF i > Len(top_opportunities) THEN seen
    ELSE group_keys_from(top_opportunities, field, i + 1,
             IF top_opportunities[i][field] \in Range(seen)
               THEN seen
               ELSE Append(seen, top_opportunities[i][field]))

\* the keys of the defaultdict, in the order the loop inserted them
group_keys(top_opportunities, field) == group_keys_from(top_opportunities, field, 1, <<>>)

\* dict(keys) for an iterable of strings: every element has to be a sequence
\* of two items, which a string is only if it has two characters
dict_raises(keys) ==
    IF \E i \in 1..Len(keys) : Len(keys[i]) # 2 THEN "ValueError" ELSE NoError

\* its value: each two-character string maps its first character to its second
dict_of(keys) ==
    [i \in 1..Len(keys) |-> <<Characters[keys[i]][1], Characters[keys[i]][2]>>]

\* gap_finder.py:545-581
generate_action_plan(top_opportunities) ==
    LET count(field, key) == ToString(Len(group(top_opportunities, field, key)))
        present(field, key) == key \in Range(group_keys(top_opportunities, field))
    IN  (IF present("priority", "high")
           THEN <<"Immediately target " \o count("priority", "high")
                    \o " high-priority keywords">>
           ELSE <<>>)
        \o (IF present("keyword_type", "informational")
              THEN <<"Create " \o count("keyword_type", "informational")
                       \o " educational blog posts or guides">>
              ELSE <<>>)
        \o (IF present("keyword_type", "commercial")
              THEN <<"Optimize " \o count("keyword_type", "commercial")
                       \o " product/service pages">>
              ELSE <<>>)
        \o (IF present("keyword_type", "local")
              THEN <<"Develop " \o count("keyword_type", "local")
                       \o " location-specific content pieces">>
              ELSE <<>>)
        \o (IF present("search_intent", "transactional")
              THEN <<"Create " \o count("search_intent", "transactional")
                       \o " conversion-focused landing pages">>
              ELSE <<>>)
        \o (IF present("search_intent", "informational")
              THEN <<"Develop " \o count("search_intent", "informational")
                       \o " educational resources">>
              ELSE <<>>)

\* the statements of generate_content_strategy that can raise, in the order
\* they run: the subscripts of the three grouping loops, then the two dict(...)
\* calls of the strategy literal, then the subscripts of its comprehensions
generate_content_strategy_raises(missing_keywords, top_n) ==
    IF missing_keywords = <<>>
      THEN NoError
      ELSE
        LET top_opportunities == top_slice(missing_keywords, top_n)
            subscripts(field) ==
                [i \in 1..Len(top_opportunities) |->
                    subscript_raises(field, DOMAIN top_opportunities[i])]
        IN  FirstError(
                subscripts("priority") \o subscripts("keyword_type")
                \o subscripts("search_intent")
                \o <<dict_raises(group_keys(top_opportunities, "keyword_type")),
                     dict_raises(group_keys(top_opportunities, "search_intent"))>>
                \o subscripts("estimated_difficulty") \o subscripts("priority"))

\* the dict it returns when nothing raises
generate_content_strategy(missing_keywords, top_n) ==
    IF missing_keywords = <<>>
      THEN [message |-> "No keyword opportunities found"]
      ELSE
        LET top_opportunities == top_slice(missing_keywords, top_n)
        IN  [total_opportunities |-> Len(missing_keywords),
             priority_breakdown |->
                 [high_priority |-> Len(group(top_opportunities, "priority", "high")),
                  medium_priority |-> Len(group(top_opportunities, "priority", "medium")),
                  low_priority |-> Len(group(top_opportunities, "priority", "low"))],
             keyword_type_breakdown |->
                 dict_of(group_keys(top_opportunities, "keyword_type")),
             intent_breakdown |->
                 dict_of(group_keys(top_opportunities, "search_intent")),
             recommended_actions |-> generate_action_plan(top_opportunities),
             quick_wins |->
                 top_slice(group(top_opportunities, "estimated_difficulty", "low"), 5),
             high_impact_targets |->
                 top_slice(group(top_opportunities, "priority", "high"), 5)]

\* ------------------------------------------------------------------------
\* analyze_multiple_texts (analyzer.py:355-422).  A text is given by what
\* analyze_text (analyzer.py:224-265) does on it: it raises, or it returns a
\* dict with one item per term of the text, holding the term's count in that
\* text (at least 1, since min_frequency=1 is passed) and its importance
\* score.  A dict is the sequence of its items in insertion order.
\* ------------------------------------------------------------------------
MaxTexts == 3

MaxRequests == 21       \* calls of wait_for_rate_limit

MaxTicks == 4           \* steps of the clock between the calls

MaxThreads == 3         \* analysis threads that are started

MaxResults == 2         \* search results of one analysis

DEFAULT_MIN_FREQUENCY == 2
DEFAULT_BATCH_SIZE == 5

Term(k, f, imp) == [keyword |-> k, frequency |-> f, importance_score |-> Fixed(imp)]

Raising == [raises |-> TRUE, analysis |-> <<>>]

Analysed(items) == [raises |-> FALSE, analysis |-> items]

\* a text analyze_text fails on, one without a term, and three with terms
TextList ==
    <<Raising,
      Analysed(<<>>),
      Analysed(<<Term("seo", 1, 25)>>),
      Analysed(<<Term("seo", 2, 40), Term("audit", 1, 25)>>),
      Analysed(<<Term("audit", 1, 30), Term("seo audit", 1, 35)>>)>>

RECURSIVE TextSeqs(_)
TextSeqs(n) ==
    IF n = 0 THEN {<<>>}
    ELSE LET shorter == TextSeqs(n - 1)
         IN  shorter \cup {Append(s, TextList[i]) : s \in shorter, i \in 1..Len(TextList)}

\* the value the defaultdict makes for a new keyword (lines 376-383)
new_aggregate(k) ==
    [keyword |-> k, frequency |-> 0, sources |-> <<>>, total_importance |-> 0,
     avg_importance |-> 0, document_frequency |-> 0, avg_position |-> 0]

\* lines 403-407: one item of one analysis goes into the aggregate
add_term(aggregated, data, source) ==
    LET known == \E n \in 1..Len(aggregated) : aggregated[n].keyword = data.keyword
        entries == IF known THEN aggregated
                   ELSE Append(aggregated, new_aggregate(data.keyword))
    IN  [n \in 1..Len(entries) |->
            IF entries[n].keyword = data.keyword
              THEN [keyword |-> entries[n].keyword,
                    frequency |-> entries[n].frequency + data.frequency,
                    sources |-> Append(entries[n].sources, source),
                    total_importance |->
                        entries[n].total_importance + data.importance_score,
                    avg_importance |-> entries[n].avg_importance,
                    document_frequency |-> entries[n].document_frequency + 1,
                    avg_position |-> entries[n].avg_position]
              ELSE entries[n]]

RECURSIVE add_analysis(_, _, _, _)
\* line 402: the items of one analysis, from item n on
add_analysis(aggregated, analysis, n, source) ==
    IF n > Len(analysis) THEN aggregated
    ELSE add_analysis(add_term(aggregated, analysis[n], source), analysis, n + 1, source)

\* lines 390-398: the analyses of the texts of the batch that did not raise
analyses_of(batch) ==
    LET done == SelectSeq(batch, LAMBDA text : ~text.raises)
    IN  [n \in 1..Len(done) |-> done[n].analysis]

RECURSIVE aggregate_batch_relative_index(_, _, _, _)
\* aggregate_batch, had it recorded the index inside the batch as the source
aggregate_batch_relative_index(aggregated, batch_analyses, i, j) ==
    IF j >= Len(batch_analyses) THEN aggregated
    ELSE aggregate_batch_relative_index(
             add_analysis(aggregated, batch_analyses[j + 1], 1, j),
             batch_analyses, i, j + 1)

RECURSIVE aggregate_batch(_, _, _, _)
\* lines 401-407: enumerate(batch_analyses) from position j on (j counts
\* from 0), in the batch that starts at text i; the source recorded is i + j
aggregate_batch(aggregated, batch_analyses, i, j) ==
    IF j >= Len(batch_analyses) THEN aggregated
    ELSE aggregate_batch(
             add_analysis(aggregated, batch_analyses[j + 1], 1, i + j),
             batch_analyses, i, j + 1)

\* lines 413-420: the keywords frequent enough, with their averages
final_keywords_of(aggregated, min_frequency, texts) ==
    LET kept == SelectSeq(aggregated, LAMBDA data : data.frequency >= min_frequency)
    IN  [n \in 1..Len(kept) |->
            [keyword |-> kept[n].keyword,
             frequency |-> kept[n].frequency,
             sources |-> kept[n].sources,
             total_importance |-> kept[n].total_importance,
             avg_importance |-> kept[n].total_importance \div kept[n].document_frequency,
             document_frequency |-> kept[n].document_frequency,
             avg_position |-> Ratio(kept[n].frequency, Len(texts))]]

\* ------------------------------------------------------------------------
\* GoogleScraper (scraper.py:18-131).  Time is counted in quarters of a
\* second; time.time() is the clock `now`, time.sleep(d) moves it on by d.
\* ------------------------------------------------------------------------
TicksPerSecond == 4

Seconds(n) == n * TicksPerSecond

\* config.py:53-56 and the length of config.USER_AGENTS (config.py:59-79)
REQUEST_DELAY == Seconds(2)
MAX_RETRIES == 3
RETRY_DELAY == Seconds(5)
USER_AGENT_COUNT == 10

\* scraper.py:37-38
rate_limit_window == Seconds(60)
max_requests_per_window == 10

\* scraper.py:99, `# Max 5 minutes`
MAX_BACKOFF == Seconds(300)

Max(a, b) == IF a >= b THEN a ELSE b

\* random.uniform(0, width): the least, the middle and the greatest value
Uniform(width) == {0, width \div 2, width}

\* scraper.py:45-46: the request times still inside the window
times_in_window(times, current_time) ==
    SelectSeq(times, LAMBDA t : current_time - t < rate_limit_window)

\* scraper.py:49-54: how long wait_for_rate_limit sleeps
wait_time(times, current_time) ==
    LET kept == times_in_window(times, current_time)
    IN  IF Len(kept) >= max_requests_per_window
          THEN Max(kept[1] + rate_limit_window - current_time, 0)
          ELSE 0

\* scraper.py:56: the list after the call: the time read at the start of
\* the call is appended, also when the call slept
times_after_wait(times, current_time) ==
    Append(times_in_window(times, current_time), current_time)

\* scraper.py:124-127
rotate_user_agent(index) == (index + 1) % USER_AGENT_COUNT

\* backoff_delay, had the delay grown by retry_delay with each retry
backoff_delay_linear(retry) == Min(MAX_BACKOFF, RETRY_DELAY * retry)

\* scraper.py:99: the delay before retry number `retry`, without the jitter
backoff_delay(retry) == Min(MAX_BACKOFF, RETRY_DELAY * (2 ^ (retry - 1)))

\* scraper.py:101: the widest jitter, min(1, delay * 0.1) seconds
jitter_width(delay) == Min(Seconds(1), delay \div 10)

\* ------------------------------------------------------------------------
\* State
\* ------------------------------------------------------------------------
VARIABLES
    competitor_keywords,     \* argument of find_missing_keywords
    user_keywords,           \* argument of find_missing_keywords and of the scorer
    similarity_threshold,    \* argument of find_missing_keywords
    hash_seed,               \* string-hash seed of the running interpreter
    calls,                   \* calls of find_missing_keywords made so far
    missing_opportunities,   \* list returned by the latest call
    directly_missing,        \* the keywords that call found directly missing,
                             \*   in the order it iterated over them
    semantic_gaps,           \* list find_semantic_gaps returned inside that call
    previous_opportunities,  \* list returned by the call before the latest
    raised,                  \* exception the latest call ended with, or NoError
    arg_keyword,             \* arguments of analyze_keyword_opportunity
    competitor_data,
    pc,                      \* position inside analyze_keyword_opportunity
    opportunity_score,       \* its local variables
    priority,
    opportunity,             \* the record it returns
    characteristics,         \* dict analyze_keyword_characteristics is filling
    arg_keyword1,            \* arguments of calculate_semantic_similarity
    arg_keyword2,
    similarity,              \* the value it returned
    keyword_recommendations, \* list generate_keyword_recommendations returned
    arg_missing_keywords,    \* arguments of generate_content_strategy
    arg_top_n,
    strategy,                \* the dict it returned
    strategy_raised,         \* the exception it ended with, or NoError
    arg_texts,               \* arguments of analyze_multiple_texts
    arg_min_frequency,
    arg_batch_size,
    batch_start,             \* its loop variable i
    aggregated_keywords,     \* its local dict
    final_keywords,          \* the dict it returns
    analyzer_pc,             \* its position
    now,                     \* the clock, time.time()
    request_times,           \* GoogleScraper.request_times
    admitted,                \* the times at which wait_for_rate_limit returned
    current_ua_index,        \* GoogleScraper.current_ua_index
    retry_count,             \* locals of make_request
    last_exception,          \*   the exception of the latest failed attempt
    attempts,                \* requests make_request has sent
    sleeps,                  \* the sleeps of its except block
    request_pc,              \* its position
    request_result,          \* the response it returned or the exception it raised
    analyze_button,          \* state of the Start Analysis button
    stop_button,             \* state of the Stop button
    stop_requested,          \* SEOAnalyzerGUI.stop_requested
    analysis_thread,         \* SEOAnalyzerGUI.analysis_thread, 0 before the first
    thread_pc,               \* position of each thread in run_analysis
    results_left,            \* search results its loop has still to visit
    after_queue,             \* callbacks given to root.after(0, ...)
    self_competitor_keywords, \* the thread that wrote SEOAnalyzerGUI.competitor_keywords
    self_missing_keywords    \* the thread that wrote SEOAnalyzerGUI.missing_keywords

vars == <<competitor_keywords, user_keywords, similarity_threshold, hash_seed,
          calls, missing_opportunities, directly_missing, semantic_gaps,
          previous_opportunities, raised,
          arg_keyword, competitor_data, pc, opportunity_score, priority, opportunity,
          characteristics, arg_keyword1, arg_keyword2, similarity,
          keyword_recommendations,
          arg_missing_keywords, arg_top_n, strategy, strategy_raised,
          arg_texts, arg_min_frequency, arg_batch_size, batch_start,
          aggregated_keywords, final_keywords, analyzer_pc,
          now, request_times, admitted, current_ua_index, retry_count,
          last_exception, attempts, sleeps, request_pc, request_result,
          analyze_button, stop_button, stop_requested, analysis_thread,
          thread_pc, results_left, after_queue, self_competitor_keywords,
          self_missing_keywords>>

gap_vars == <<competitor_keywords, user_keywords, similarity_threshold, hash_seed,
              calls, missing_opportunities, directly_missing, semantic_gaps,
              previous_opportunities, raised>>

score_vars == <<arg_keyword, competitor_data, pc, opportunity_score, priority, opportunity>>

keyword_vars == <<characteristics, arg_keyword1, arg_keyword2, similarity>>

recommendation_vars == <<keyword_recommendations>>

\* state of the components that the gap finder's functions never touch
strategy_vars == <<arg_missing_keywords, arg_top_n, strategy, strategy_raised>>

analyzer_vars == <<arg_texts, arg_min_frequency, arg_batch_size, batch_start,
                   aggregated_keywords, final_keywords, analyzer_pc>>

\* state of the keyword analyzer, the scraper and the window
scraper_vars == <<now, request_times, admitted, current_ua_index, retry_count,
                  last_exception, attempts, sleeps, request_pc, request_result>>

gui_vars == <<analyze_button, stop_button, stop_requested, analysis_thread,
              thread_pc, results_left, after_queue, self_competitor_keywords,
              self_missing_keywords>>

component_vars == <<analyzer_vars, scraper_vars, gui_vars>>

other_vars == <<recommendation_vars, strategy_vars, component_vars>>

finder_vars == <<gap_vars, score_vars, keyword_vars, recommendation_vars, strategy_vars>>

\* ------------------------------------------------------------------------
\* Inputs
\* ------------------------------------------------------------------------
Stats(f, df, imp) ==
    [frequency |-> f, document_frequency |-> df, avg_importance |-> Fixed(imp)]

\* stats the analyzer reported for each keyword (tests/test_gap_finder.py:9-28
\* for the first three)
CompetitorStats(k) ==
    CASE k = "seo optimization"  -> Stats(10, 5, 80)
      [] k = "digital marketing" -> Stats(8, 4, 75)
      [] OTHER                 -> Stats(6, 3, 70)

Item(k) == [keyword |-> k] @@ CompetitorStats(k)

\* sequences of at most n distinct keywords
RECURSIVE KeySeqs(_)
KeySeqs(n) ==
    IF n = 0 THEN {<<>>}
    ELSE LET shorter == KeySeqs(n - 1)
         IN  shorter \cup {Append(s, k) : s \in shorter, k \in Keywords}

DistinctKeySeqs(n) ==
    {s \in KeySeqs(n) : \A i, j \in 1..Len(s) : i # j => s[i] # s[j]}

CompetitorDicts ==
    {[i \in 1..Len(s) |-> Item(s[i])] : s \in DistinctKeySeqs(MaxCompetitor)}

UserDicts == {None} \cup {Dict(s) : s \in DistinctKeySeqs(MaxUser)}

\* user_keywords of the calls of find_missing_keywords: the order of its keys
\* reaches only related_user_keywords (gap_finder.py:408-421), which the
\* scoring specification varies, so here the keys come in one order
CallUserDicts ==
    {None} \cup
    {Dict(s) : s \in {t \in DistinctKeySeqs(MaxUser) :
                        \A i, j \in 1..Len(t) :
                            i < j => KeywordIndex(t[i]) < KeywordIndex(t[j])}}

\* 0.4, the default 0.8, 1.0, and 1.2, which no similarity reaches
DEFAULT_SIMILARITY_THRESHOLD == Ratio(8, 10)

Thresholds == {Ratio(4, 10), DEFAULT_SIMILARITY_THRESHOLD, Fixed(1), Ratio(12, 10)}

NotComputed == 0 - 1

NoRecord == [keyword |-> ""]

NoCallInputs ==
    /\ arg_keyword = ""
    /\ competitor_data = Stats(0, 0, 0)
    /\ pc = "idle"
    /\ opportunity_score = NotComputed
    /\ priority = "none"
    /\ opportunity = NoRecord

NoSimilarityCall ==
    /\ arg_keyword1 = ""
    /\ arg_keyword2 = ""
    /\ similarity = NotComputed

NoKeywordCalls ==
    /\ characteristics = <<>>
    /\ NoSimilarityCall

NoRecommendationCall == keyword_recommendations = <<>>

NoStrategy == [message |-> "not returned"]

NoStrategyCall ==
    /\ arg_missing_keywords = <<>>
    /\ arg_top_n = 0
    /\ strategy = NoStrategy
    /\ strategy_raised = NoError

NoAnalyzerCall ==
    /\ arg_texts = <<>>
    /\ arg_min_frequency = DEFAULT_MIN_FREQUENCY
    /\ arg_batch_size = DEFAULT_BATCH_SIZE
    /\ batch_start = 0
    /\ aggregated_keywords = <<>>
    /\ final_keywords = <<>>
    /\ analyzer_pc = "idle"

NoResponse == [kind |-> "none", attempt |-> 0]

FullWindow == [i \in 1..max_requests_per_window |-> 0]

NoRequestCall ==
    /\ retry_count = 0
    /\ last_exception = None
    /\ attempts = 0
    /\ sleeps = <<>>
    /\ request_pc = "idle"
    /\ request_result = NoResponse

NoScraperCalls ==
    /\ now = 0
    /\ request_times = <<>>
    /\ admitted = <<>>
    /\ current_ua_index = 0
    /\ NoRequestCall

\* the window after construction (main.py:33-37, 254-265): no analysis has
\* been started.  stop_requested is first set by start_analysis and is read
\* only by run_analysis, which starts after it
NoGuiCalls ==
    /\ analyze_button = "normal"
    /\ stop_button = "disabled"
    /\ stop_requested = FALSE
    /\ analysis_thread = 0
    /\ thread_pc = [t \in 1..MaxThreads |-> "unborn"]
    /\ results_left = [t \in 1..MaxThreads |-> 0]
    /\ after_queue = <<>>
    /\ self_competitor_keywords = 0
    /\ self_missing_keywords = 0

\* nothing runs in the analyzer, the scraper and the window
NoComponentCalls ==
    /\ NoAnalyzerCall
    /\ NoScraperCalls
    /\ NoGuiCalls

NoOtherCalls ==
    /\ NoRecommendationCall
    /\ NoStrategyCall
    /\ NoComponentCalls

\* ------------------------------------------------------------------------
\* Calls of find_missing_keywords (gap_finder.py:67-107)
\* ------------------------------------------------------------------------
Init ==
    /\ competitor_keywords \in CompetitorDicts
    /\ user_keywords \in CallUserDicts
    /\ similarity_threshold \in Thresholds
    /\ hash_seed = FirstSeed
    /\ calls = 0
    /\ missing_opportunities = <<>>
    /\ directly_missing = <<>>
    /\ semantic_gaps = <<>>
    /\ previous_opportunities = <<>>
    /\ raised = NoError
    /\ NoCallInputs
    /\ NoKeywordCalls
    /\ NoOtherCalls

\* FindMissingKeywords, had find_semantic_gaps set 'gap_type' on the
\* competitor's own stats dict instead of on the record it built
FindMissingKeywords_tagging_competitor_data ==
    /\ calls < MaxCalls
    /\ calls' = calls + 1
    /\ raised' = find_missing_keywords_raises(competitor_keywords, user_keywords,
                                              similarity_threshold, hash_seed)
    /\ previous_opportunities' = missing_opportunities
    /\ directly_missing' =
           directly_missing_keywords(competitor_keywords, user_keywords, hash_seed)
    /\ semantic_gaps' =
           find_semantic_gaps(competitor_keywords, user_keywords, similarity_threshold)
    /\ missing_opportunities' =
           sorted_opportunities(
               opportunities_of(directly_missing', competitor_keywords, user_keywords),
               semantic_gaps')
    /\ competitor_keywords' =
           [i \in 1..Len(competitor_keywords) |->
               IF \E j \in 1..Len(semantic_gaps') :
                      semantic_gaps'[j].keyword = competitor_keywords[i].keyword
                 THEN [keyword |-> competitor_keywords[i].keyword,
                       frequency |-> competitor_keywords[i].frequency,
                       document_frequency |-> competitor_keywords[i].document_frequency,
                       avg_importance |-> competitor_keywords[i].avg_importance,
                       gap_type |-> "semantic"]
                 ELSE competitor_keywords[i]]
    /\ UNCHANGED <<user_keywords, similarity_threshold, hash_seed>>
    /\ UNCHANGED score_vars
    /\ UNCHANGED other_vars
    /\ UNCHANGED keyword_vars

FindMissingKeywords ==
    /\ calls < MaxCalls
    /\ calls' = calls + 1
    /\ raised' = find_missing_keywords_raises(competitor_keywords, user_keywords,
                                              similarity_threshold, hash_seed)
    /\ IF raised' = NoError
         THEN /\ previous_opportunities' = missing_opportunities
              /\ directly_missing' =
                     directly_missing_keywords(competitor_keywords, user_keywords,
                                               hash_seed)
              /\ semantic_gaps' =
                     find_semantic_gaps(competitor_keywords, user_keywords,
                                        similarity_threshold)
              /\ missing_opportunities' =
                     sorted_opportunities(
                         opportunities_of(directly_missing', competitor_keywords,
                                          user_keywords),
                         semantic_gaps')
         ELSE UNCHANGED <<previous_opportunities, directly_missing, semantic_gaps,
                          missing_opportunities>>
    /\ UNCHANGED <<competitor_keywords, user_keywords, similarity_threshold, hash_seed>>
    /\ UNCHANGED score_vars
    /\ UNCHANGED other_vars
    /\ UNCHANGED keyword_vars

\* the program is run again: a new interpreter draws a new hash seed; the
\* list the earlier run returned is what that run reported
RestartInterpreter ==
    /\ calls > 0
    /\ calls < MaxCalls
    /\ hash_seed' \in HashSeeds \ {hash_seed}
    /\ UNCHANGED <<competitor_keywords, user_keywords, similarity_threshold,
                   calls, missing_opportunities, directly_missing, semantic_gaps,
                   previous_opportunities, raised>>
    /\ UNCHANGED score_vars
    /\ UNCHANGED other_vars
    /\ UNCHANGED keyword_vars

Next == FindMissingKeywords \/ RestartInterpreter

Spec == Init /\ [][Next]_vars

\* ------------------------------------------------------------------------
\* One call of analyze_keyword_opportunity (gap_finder.py:109-156), step by
\* step: the score (line 128), the priority (line 133), the record (141-154)
\* ------------------------------------------------------------------------
Importances == {0, Ratio(145, 2), Fixed(80), Fixed(100)}

CompetitorDataInputs ==
    {[frequency |-> f, document_frequency |-> df, avg_importance |-> imp] :
        f \in 0..MaxFrequency, df \in 0..MaxDocFrequency, imp \in Importances}

NoCalls ==
    /\ competitor_keywords = <<>>
    /\ similarity_threshold = DEFAULT_SIMILARITY_THRESHOLD
    /\ hash_seed = 1
    /\ calls = 0
    /\ missing_opportunities = <<>>
    /\ directly_missing = <<>>
    /\ semantic_gaps = <<>>
    /\ previous_opportunities = <<>>
    /\ raised = NoError

\* the user dicts above, and those holding the first n spellings of VariantList
ScoreUserDicts ==
    UserDicts \cup {Dict(SubSeq(VariantList, 1, n)) : n \in 0..Len(VariantList)}

InitScore ==
    /\ arg_keyword \in ScoreKeywords
    /\ competitor_data \in CompetitorDataInputs
    /\ user_keywords \in ScoreUserDicts
    /\ pc = "score"
    /\ opportunity_score = NotComputed
    /\ priority = "none"
    /\ opportunity = NoRecord
    /\ NoCalls
    /\ NoOtherCalls
    /\ NoKeywordCalls

CalculateOpportunityScore ==
    /\ pc = "score"
    /\ opportunity_score' =
           calculate_opportunity_score(competitor_data.frequency,
                                       competitor_data.document_frequency,
                                       competitor_data.avg_importance,
                                       arg_keyword, user_keywords)
    /\ pc' = "priority"
    /\ UNCHANGED <<arg_keyword, competitor_data, priority, opportunity>>
    /\ UNCHANGED gap_vars
    /\ UNCHANGED other_vars
    /\ UNCHANGED keyword_vars

DeterminePriority ==
    /\ pc = "priority"
    /\ priority' = determine_priority(opportunity_score)
    /\ pc' = "record"
    /\ UNCHANGED <<arg_keyword, competitor_data, opportunity_score, opportunity>>
    /\ UNCHANGED gap_vars
    /\ UNCHANGED other_vars
    /\ UNCHANGED keyword_vars

\* BuildOpportunity, had word_count counted the distinct lowercase words
BuildOpportunity_distinct_words ==
    /\ pc = "record"
    /\ arg_keyword # ""
    /\ opportunity' =
           [keyword |-> arg_keyword,
            opportunity_score |-> opportunity_score,
            priority |-> priority,
            competitor_frequency |-> competitor_data.frequency,
            found_in_sites |-> competitor_data.document_frequency,
            avg_competitor_importance |-> competitor_data.avg_importance,
            keyword_type |-> keyword_characteristics(arg_keyword).type,
            word_count |-> Cardinality(word_set(arg_keyword)),
            estimated_difficulty |-> keyword_characteristics(arg_keyword).difficulty,
            search_intent |-> keyword_characteristics(arg_keyword).intent,
            recommendations |-> generate_keyword_recommendations(arg_keyword, competitor_data),
            related_user_keywords |-> find_related_user_keywords(arg_keyword, user_keywords)]
    /\ pc' = "done"
    /\ UNCHANGED <<arg_keyword, competitor_data, opportunity_score, priority>>
    /\ UNCHANGED gap_vars
    /\ UNCHANGED other_vars
    /\ UNCHANGED keyword_vars

BuildOpportunity ==
    /\ pc = "record"
    /\ arg_keyword # ""
    /\ opportunity' =
           [keyword |-> arg_keyword,
            opportunity_score |-> opportunity_score,
            priority |-> priority,
            competitor_frequency |-> competitor_data.frequency,
            found_in_sites |-> competitor_data.document_frequency,
            avg_competitor_importance |-> competitor_data.avg_importance,
            keyword_type |-> keyword_characteristics(arg_keyword).type,
            word_count |-> word_count(arg_keyword),
            estimated_difficulty |-> keyword_characteristics(arg_keyword).difficulty,
            search_intent |-> keyword_characteristics(arg_keyword).intent,
            recommendations |-> generate_keyword_recommendations(arg_keyword, competitor_data),
            related_user_keywords |-> find_related_user_keywords(arg_keyword, user_keywords)]
    /\ pc' = "done"
    /\ UNCHANGED <<arg_keyword, competitor_data, opportunity_score, priority>>
    /\ UNCHANGED gap_vars
    /\ UNCHANGED other_vars
    /\ UNCHANGED keyword_vars

NextScore == CalculateOpportunityScore \/ DeterminePriority \/ BuildOpportunity

SpecScore == InitScore /\ [][NextScore]_vars

\* ------------------------------------------------------------------------
\* determine_priority called on an arbitrary score
\* ------------------------------------------------------------------------
PriorityScores == 0..Fixed(MaxScore)

InitPriority ==
    /\ arg_keyword = ""
    /\ competitor_data = Stats(0, 0, 0)
    /\ user_keywords = None
    /\ pc = "priority"
    /\ opportunity_score \in PriorityScores
    /\ priority = "none"
    /\ opportunity = NoRecord
    /\ NoCalls
    /\ NoOtherCalls
    /\ NoKeywordCalls

NextPriority == DeterminePriority

SpecPriority == InitPriority /\ [][NextPriority]_vars

\* ------------------------------------------------------------------------
\* One call of analyze_keyword_characteristics (gap_finder.py:242-258): the
\* dict is filled in the order its literal is written, 'type' (line 253),
\* 'difficulty' (line 254), 'intent' (line 255)
\* ------------------------------------------------------------------------
InitCharacteristics ==
    /\ arg_keyword \in ClassifierKeywords
    /\ competitor_data = Stats(0, 0, 0)
    /\ user_keywords = None
    /\ pc = "type"
    /\ opportunity_score = NotComputed
    /\ priority = "none"
    /\ opportunity = NoRecord
    /\ characteristics = <<>>
    /\ NoSimilarityCall
    /\ NoCalls
    /\ NoOtherCalls

ClassifyKeywordType ==
    /\ pc = "type"
    /\ characteristics' = [type |-> classify_keyword_type(arg_keyword)]
    /\ pc' = "difficulty"
    /\ UNCHANGED <<arg_keyword, competitor_data, opportunity_score, priority, opportunity>>
    /\ UNCHANGED <<arg_keyword1, arg_keyword2, similarity>>
    /\ UNCHANGED gap_vars
    /\ UNCHANGED other_vars

EstimateKeywordDifficulty ==
    /\ pc = "difficulty"
    /\ characteristics' =
           [type |-> characteristics.type,
            difficulty |-> estimate_keyword_difficulty(arg_keyword)]
    /\ pc' = "intent"
    /\ UNCHANGED <<arg_keyword, competitor_data, opportunity_score, priority, opportunity>>
    /\ UNCHANGED <<arg_keyword1, arg_keyword2, similarity>>
    /\ UNCHANGED gap_vars
    /\ UNCHANGED other_vars

ClassifySearchIntent ==
    /\ pc = "intent"
    /\ characteristics' =
           [type |-> characteristics.type,
            difficulty |-> characteristics.difficulty,
            intent |-> classify_search_intent(arg_keyword)]
    /\ pc' = "done"
    /\ UNCHANGED <<arg_keyword, competitor_data, opportunity_score, priority, opportunity>>
    /\ UNCHANGED <<arg_keyword1, arg_keyword2, similarity>>
    /\ UNCHANGED gap_vars
    /\ UNCHANGED other_vars

NextCharacteristics ==
    ClassifyKeywordType \/ EstimateKeywordDifficulty \/ ClassifySearchIntent

SpecCharacteristics == InitCharacteristics /\ [][NextCharacteristics]_vars

\* ------------------------------------------------------------------------
\* One call of calculate_semantic_similarity (gap_finder.py:460-492)
\* ------------------------------------------------------------------------
InitSimilarity ==
    /\ arg_keyword1 \in SimilarityKeywords
    /\ arg_keyword2 \in SimilarityKeywords
    /\ similarity = NotComputed
    /\ characteristics = <<>>
    /\ user_keywords = None
    /\ pc = "similarity"
    /\ NoCalls
    /\ NoOtherCalls
    /\ arg_keyword = ""
    /\ competitor_data = Stats(0, 0, 0)
    /\ opportunity_score = NotComputed
    /\ priority = "none"
    /\ opportunity = NoRecord

CalculateSemanticSimilarity ==
    /\ pc = "similarity"
    /\ similarity' = calculate_semantic_similarity(arg_keyword1, arg_keyword2)
    /\ pc' = "done"
    /\ UNCHANGED <<arg_keyword, competitor_data, opportunity_score, priority, opportunity>>
    /\ UNCHANGED <<characteristics, arg_keyword1, arg_keyword2>>
    /\ UNCHANGED gap_vars
    /\ UNCHANGED other_vars

NextSimilarity == CalculateSemanticSimilarity

SpecSimilarity == InitSimilarity /\ [][NextSimilarity]_vars

\* ------------------------------------------------------------------------
\* One call of generate_keyword_recommendations (gap_finder.py:350-392) on a
\* keyword with at least one word and the stats of a keyword the analyzer
\* counted: it occurs frequency >= 1 times in document_frequency >= 1
\* documents, at least once in each
\* ------------------------------------------------------------------------
RecommendationKeywords == {k \in ClassifierKeywords : word_count(k) > 0}

RecommendationInputs ==
    {d \in {Stats(f, df, 70) : f \in 1..MaxFrequency, df \in 1..MaxDocFrequency} :
        d.document_frequency <= d.frequency}

InitRecommendations ==
    /\ arg_keyword \in RecommendationKeywords
    /\ competitor_data \in RecommendationInputs
    /\ user_keywords = None
    /\ pc = "recommend"
    /\ opportunity_score = NotComputed
    /\ priority = "none"
    /\ opportunity = NoRecord
    /\ keyword_recommendations = <<>>
    /\ NoStrategyCall
    /\ NoComponentCalls
    /\ NoKeywordCalls
    /\ NoCalls

GenerateKeywordRecommendations ==
    /\ pc = "recommend"
    /\ keyword_recommendations' = generate_keyword_recommendations(arg_keyword, competitor_data)
    /\ pc' = "done"
    /\ UNCHANGED <<arg_keyword, competitor_data, opportunity_score, priority, opportunity>>
    /\ UNCHANGED keyword_vars
    /\ UNCHANGED strategy_vars
    /\ UNCHANGED component_vars
    /\ UNCHANGED gap_vars

NextRecommendations == GenerateKeywordRecommendations

SpecRecommendations == InitRecommendations /\ [][NextRecommendations]_vars

\* ------------------------------------------------------------------------
\* One call of generate_content_strategy (gap_finder.py:494-543) on a list
\* that find_missing_keywords returned
\* ------------------------------------------------------------------------
StrategyUserDicts == {None} \cup {Dict(SubSeq(KeywordList, 1, n)) : n \in 0..MaxUser}

StrategyInputs ==
    {sorted_opportunities(
         opportunities_of(directly_missing_keywords(ck, uk, FirstSeed), ck, uk),
         find_semantic_gaps(ck, uk, DEFAULT_SIMILARITY_THRESHOLD)) :
        ck \in CompetitorDicts, uk \in StrategyUserDicts}

TopNs == {0, 1, MaxCompetitor, DEFAULT_TOP_N}

InitStrategy ==
    /\ arg_missing_keywords \in StrategyInputs
    /\ arg_top_n \in TopNs
    /\ strategy = NoStrategy
    /\ strategy_raised = NoError
    /\ pc = "strategy"
    /\ arg_keyword = ""
    /\ competitor_data = Stats(0, 0, 0)
    /\ user_keywords = None
    /\ opportunity_score = NotComputed
    /\ priority = "none"
    /\ opportunity = NoRecord
    /\ NoKeywordCalls
    /\ NoRecommendationCall
    /\ NoComponentCalls
    /\ NoCalls

GenerateContentStrategy ==
    /\ pc = "strategy"
    /\ strategy_raised' = generate_content_strategy_raises(arg_missing_keywords, arg_top_n)
    /\ strategy' = IF strategy_raised' = NoError
                     THEN generate_content_strategy(arg_missing_keywords, arg_top_n)
                     ELSE strategy
    /\ pc' = "done"
    /\ UNCHANGED <<arg_missing_keywords, arg_top_n>>
    /\ UNCHANGED <<arg_keyword, competitor_data, opportunity_score, priority, opportunity>>
    /\ UNCHANGED keyword_vars
    /\ UNCHANGED recommendation_vars
    /\ UNCHANGED component_vars
    /\ UNCHANGED gap_vars

NextStrategy == GenerateContentStrategy

SpecStrategy == InitStrategy /\ [][NextStrategy]_vars

\* ------------------------------------------------------------------------
\* One call of analyze_multiple_texts (analyzer.py:355-422): a step per
\* batch, then the final filtering
\* ------------------------------------------------------------------------
BatchSizes == {1, 2, DEFAULT_BATCH_SIZE}

MinFrequencies == {1, DEFAULT_MIN_FREQUENCY, DEFAULT_MIN_FREQUENCY + 1}

NoFinderCalls ==
    /\ NoCalls
    /\ NoCallInputs
    /\ user_keywords = None
    /\ NoKeywordCalls
    /\ NoRecommendationCall
    /\ NoStrategyCall

InitAnalyzer ==
    /\ arg_texts \in TextSeqs(MaxTexts)
    /\ arg_min_frequency \in MinFrequencies
    /\ arg_batch_size \in BatchSizes
    /\ batch_start = 0
    /\ aggregated_keywords = <<>>
    /\ final_keywords = <<>>
    /\ analyzer_pc = "called"
    /\ NoScraperCalls
    /\ NoGuiCalls
    /\ NoFinderCalls

\* lines 372-373: `if not texts: return {}`
ReturnEmpty ==
    /\ analyzer_pc = "called"
    /\ arg_texts = <<>>
    /\ analyzer_pc' = "done"
    /\ UNCHANGED <<arg_texts, arg_min_frequency, arg_batch_size, batch_start,
                   aggregated_keywords, final_keywords>>
    /\ UNCHANGED scraper_vars
    /\ UNCHANGED gui_vars
    /\ UNCHANGED finder_vars

\* lines 386-410: one pass of the loop over the batches
ProcessBatch ==
    /\ analyzer_pc \in {"called", "batches"}
    /\ arg_texts # <<>>
    /\ batch_start < Len(arg_texts)
    /\ LET batch == SubSeq(arg_texts, batch_start + 1,
                           Min(batch_start + arg_batch_size, Len(arg_texts)))
       IN  aggregated_keywords' =
               aggregate_batch(aggregated_keywords, analyses_of(batch), batch_start, 0)
    /\ batch_start' = batch_start + arg_batch_size
    /\ analyzer_pc' = "batches"
    /\ UNCHANGED <<arg_texts, arg_min_frequency, arg_batch_size, final_keywords>>
    /\ UNCHANGED scraper_vars
    /\ UNCHANGED gui_vars
    /\ UNCHANGED finder_vars

\* lines 412-422
FilterKeywords ==
    /\ analyzer_pc = "batches"
    /\ batch_start >= Len(arg_texts)
    /\ final_keywords' =
           final_keywords_of(aggregated_keywords, arg_min_frequency, arg_texts)
    /\ analyzer_pc' = "done"
    /\ UNCHANGED <<arg_texts, arg_min_frequency, arg_batch_size, batch_start,
                   aggregated_keywords>>
    /\ UNCHANGED scraper_vars
    /\ UNCHANGED gui_vars
    /\ UNCHANGED finder_vars

NextAnalyzer == ReturnEmpty \/ ProcessBatch \/ FilterKeywords

SpecAnalyzer == InitAnalyzer /\ [][NextAnalyzer]_vars

\* ------------------------------------------------------------------------
\* One call of GoogleScraper.make_request (scraper.py:58-112), on a scraper
\* just constructed or one that has just made ten requests
\* ------------------------------------------------------------------------
InitRequest ==
    /\ now = 0
    /\ request_times \in {<<>>, FullWindow}
    /\ admitted = <<>>
    /\ current_ua_index = 0
    /\ retry_count = 0
    /\ last_exception = None
    /\ attempts = 0
    /\ sleeps = <<>>
    /\ request_pc = "loop"
    /\ request_result = NoResponse
    /\ NoAnalyzerCall
    /\ NoGuiCalls
    /\ NoFinderCalls

\* the outcome of the request of lines 88-89: a response, a
\* requests.RequestException (connection error, timeout, HTTP error status),
\* or any other exception
Outcomes == {"response", "RequestException", "Exception"}

\* lines 76-91: one pass of the try block
SendRequest ==
    /\ request_pc = "loop"
    /\ retry_count <= MAX_RETRIES
    /\ \E jitter \in Uniform(Seconds(2)), outcome \in Outcomes :
           /\ now' = now + wait_time(request_times, now) + REQUEST_DELAY + jitter
           /\ request_times' = times_after_wait(request_times, now)
           /\ admitted' = Append(admitted, now + wait_time(request_times, now))
           /\ current_ua_index' = rotate_user_agent(current_ua_index)
           /\ attempts' = attempts + 1
           /\ CASE outcome = "response" ->
                     /\ request_pc' = "returned"
                     /\ request_result' = [kind |-> "response", attempt |-> attempts']
                     /\ UNCHANGED last_exception
                [] outcome = "RequestException" ->
                     /\ request_pc' = "except"
                     /\ last_exception' = [kind |-> "RequestException", attempt |-> attempts']
                     /\ UNCHANGED request_result
                [] outcome = "Exception" ->
                     /\ request_pc' = "raised"
                     /\ request_result' = [kind |-> "Exception", attempt |-> attempts']
                     /\ UNCHANGED last_exception
    /\ UNCHANGED <<retry_count, sleeps>>
    /\ UNCHANGED analyzer_vars
    /\ UNCHANGED gui_vars
    /\ UNCHANGED finder_vars

\* lines 93-110: the except block
HandleRequestException ==
    /\ request_pc = "except"
    /\ retry_count' = retry_count + 1
    /\ IF retry_count' <= MAX_RETRIES
         THEN \E jitter \in Uniform(jitter_width(backoff_delay(retry_count'))) :
                  /\ sleeps' = Append(sleeps, [delay |-> backoff_delay(retry_count'),
                                               jitter |-> jitter])
                  /\ now' = now + backoff_delay(retry_count') + jitter
         ELSE UNCHANGED <<sleeps, now>>
    /\ request_pc' = "loop"
    /\ UNCHANGED <<request_times, admitted, current_ua_index, last_exception,
                   attempts, request_result>>
    /\ UNCHANGED analyzer_vars
    /\ UNCHANGED gui_vars
    /\ UNCHANGED finder_vars

\* line 112: the loop is left, `raise last_exception`
RaiseLastException ==
    /\ request_pc = "loop"
    /\ retry_count > MAX_RETRIES
    /\ request_pc' = "raised"
    /\ request_result' = last_exception
    /\ UNCHANGED <<now, request_times, admitted, current_ua_index, retry_count,
                   last_exception, attempts, sleeps>>
    /\ UNCHANGED analyzer_vars
    /\ UNCHANGED gui_vars
    /\ UNCHANGED finder_vars

NextRequest == SendRequest \/ HandleRequestException \/ RaiseLastException

\* the thread that runs make_request keeps running
SpecRequest == InitRequest /\ [][NextRequest]_vars /\ WF_vars(NextRequest)

\* ------------------------------------------------------------------------
\* ------------------------------------------------------------------------
\* Calls of GoogleScraper.wait_for_rate_limit (scraper.py:40-56) on one
\* scraper, with time passing between them
\* ------------------------------------------------------------------------
TickStep == rate_limit_window \div 2

InitRateLimit ==
    /\ NoScraperCalls
    /\ NoAnalyzerCall
    /\ NoGuiCalls
    /\ NoFinderCalls

\* the whole call: prune, sleep while the window is full, record the time
\* that was read before the sleep
WaitForRateLimit ==
    /\ Len(admitted) < MaxRequests
    /\ now' = now + wait_time(request_times, now)
    /\ request_times' = times_after_wait(request_times, now)
    /\ admitted' = Append(admitted, now')
    /\ UNCHANGED <<current_ua_index, retry_count, last_exception, attempts,
                   sleeps, request_pc, request_result>>
    /\ UNCHANGED analyzer_vars
    /\ UNCHANGED gui_vars
    /\ UNCHANGED finder_vars

\* time passes between two calls
Tick ==
    /\ now < MaxTicks * TickStep
    /\ now' = now + TickStep
    /\ UNCHANGED <<request_times, admitted, current_ua_index, retry_count,
                   last_exception, attempts, sleeps, request_pc, request_result>>
    /\ UNCHANGED analyzer_vars
    /\ UNCHANGED gui_vars
    /\ UNCHANGED finder_vars

NextRateLimit == WaitForRateLimit \/ Tick

SpecRateLimit == InitRateLimit /\ [][NextRateLimit]_vars

\* ------------------------------------------------------------------------
\* The window (main.py): clicks on Start Analysis and Stop, handled by the
\* Tk main loop, and the worker threads that run run_analysis.  A thread is
\* named by the order in which it was started; self.competitor_keywords and
\* self.missing_keywords hold the name of the thread that wrote them, 0
\* after clear_results
\* ------------------------------------------------------------------------
Threads == 1..MaxThreads

\* threading.Thread.is_alive
is_alive(t) == thread_pc[t] \notin {"unborn", "dead"}

InitGui ==
    /\ NoGuiCalls
    /\ NoAnalyzerCall
    /\ NoScraperCalls
    /\ NoFinderCalls

\* main.py:458-500: a click on the Start Analysis button, which invokes its
\* command only while it is enabled.  With invalid inputs the handler shows
\* an error and returns
StartAnalysis ==
    /\ analyze_button = "normal"
    /\ \E valid \in BOOLEAN :
           IF valid /\ \E t \in Threads : thread_pc[t] = "unborn"
             THEN LET t == CHOOSE t \in Threads :
                               /\ thread_pc[t] = "unborn"
                               /\ \A u \in Threads : thread_pc[u] = "unborn" => t <= u
                  IN  /\ analyze_button' = "disabled"
                      /\ stop_button' = "normal"
                      /\ self_competitor_keywords' = 0
                      /\ self_missing_keywords' = 0
                      /\ stop_requested' = FALSE
                      /\ analysis_thread' = t
                      /\ thread_pc' = [thread_pc EXCEPT ![t] = "scrape"]
                      /\ UNCHANGED <<results_left, after_queue>>
             ELSE UNCHANGED gui_vars
    /\ UNCHANGED analyzer_vars
    /\ UNCHANGED scraper_vars
    /\ UNCHANGED finder_vars

\* main.py:823-831: a click on the Stop button
StopAnalysis ==
    /\ stop_button = "normal"
    /\ IF analysis_thread # 0 /\ is_alive(analysis_thread)
         THEN /\ stop_requested' = TRUE
              /\ analyze_button' = "normal"
              /\ stop_button' = "disabled"
         ELSE UNCHANGED <<stop_requested, analyze_button, stop_button>>
    /\ UNCHANGED <<analysis_thread, thread_pc, results_left, after_queue,
                   self_competitor_keywords, self_missing_keywords>>
    /\ UNCHANGED analyzer_vars
    /\ UNCHANGED scraper_vars
    /\ UNCHANGED finder_vars

\* main.py:504-529: the thread scrapes the search results; with none, or
\* with an exception, it goes to the finally clause
ScrapeResults(t) ==
    /\ thread_pc[t] = "scrape"
    /\ \E found \in 0..MaxResults :
           IF found = 0
             THEN /\ thread_pc' = [thread_pc EXCEPT ![t] = "finally"]
                  /\ UNCHANGED results_left
             ELSE /\ thread_pc' = [thread_pc EXCEPT ![t] = "loop"]
                  /\ results_left' = [results_left EXCEPT ![t] = found]
    /\ UNCHANGED <<analyze_button, stop_button, stop_requested, analysis_thread,
                   after_queue, self_competitor_keywords, self_missing_keywords>>
    /\ UNCHANGED analyzer_vars
    /\ UNCHANGED scraper_vars
    /\ UNCHANGED finder_vars

\* main.py:537-545: one pass of the loop over the search results
ProcessCompetitor(t) ==
    /\ thread_pc[t] = "loop"
    /\ results_left[t] > 0
    /\ IF stop_requested
         THEN /\ thread_pc' = [thread_pc EXCEPT ![t] = "finally"]
              /\ UNCHANGED results_left
         ELSE /\ results_left' = [results_left EXCEPT ![t] = @ - 1]
              /\ UNCHANGED thread_pc
    /\ UNCHANGED <<analyze_button, stop_button, stop_requested, analysis_thread,
                   after_queue, self_competitor_keywords, self_missing_keywords>>
    /\ UNCHANGED analyzer_vars
    /\ UNCHANGED scraper_vars
    /\ UNCHANGED finder_vars

\* main.py:547-561: after the loop the thread stores the competitor keywords
AnalyzeCompetitors(t) ==
    /\ thread_pc[t] = "loop"
    /\ results_left[t] = 0
    /\ \E outcome \in {"stored", "Exception"} :
           IF outcome = "stored"
             THEN /\ self_competitor_keywords' = t
                  /\ thread_pc' = [thread_pc EXCEPT ![t] = "gaps"]
             ELSE /\ thread_pc' = [thread_pc EXCEPT ![t] = "finally"]
                  /\ UNCHANGED self_competitor_keywords
    /\ UNCHANGED <<analyze_button, stop_button, stop_requested, analysis_thread,
                   results_left, after_queue, self_missing_keywords>>
    /\ UNCHANGED analyzer_vars
    /\ UNCHANGED scraper_vars
    /\ UNCHANGED finder_vars

\* main.py:563-598: the thread analyses the user's content and stores the
\* missing keywords
FindGaps(t) ==
    /\ thread_pc[t] = "gaps"
    /\ \E outcome \in {"stored", "Exception"} :
           IF outcome = "stored"
             THEN self_missing_keywords' = t
             ELSE UNCHANGED self_missing_keywords
    /\ thread_pc' = [thread_pc EXCEPT ![t] = "finally"]
    /\ UNCHANGED <<analyze_button, stop_button, stop_requested, analysis_thread,
                   results_left, after_queue, self_competitor_keywords>>
    /\ UNCHANGED analyzer_vars
    /\ UNCHANGED scraper_vars
    /\ UNCHANGED finder_vars

\* main.py:613-616: the finally clause hands two callbacks to the main
\* loop, and the thread ends
Finally(t) ==
    /\ thread_pc[t] = "finally"
    /\ after_queue' = after_queue \o <<"analyze_button NORMAL", "stop_button DISABLED">>
    /\ thread_pc' = [thread_pc EXCEPT ![t] = "dead"]
    /\ UNCHANGED <<analyze_button, stop_button, stop_requested, analysis_thread,
                   results_left, self_competitor_keywords, self_missing_keywords>>
    /\ UNCHANGED analyzer_vars
    /\ UNCHANGED scraper_vars
    /\ UNCHANGED finder_vars

\* the main loop runs the oldest callback given to root.after(0, ...)
RunCallback ==
    /\ after_queue # <<>>
    /\ after_queue' = Tail(after_queue)
    /\ IF Head(after_queue) = "analyze_button NORMAL"
         THEN /\ analyze_button' = "normal"
              /\ UNCHANGED stop_button
         ELSE /\ stop_button' = "disabled"
              /\ UNCHANGED analyze_button
    /\ UNCHANGED <<stop_requested, analysis_thread, thread_pc, results_left,
                   self_competitor_keywords, self_missing_keywords>>
    /\ UNCHANGED analyzer_vars
    /\ UNCHANGED scraper_vars
    /\ UNCHANGED finder_vars

RunAnalysis(t) ==
    \/ ScrapeResults(t)
    \/ ProcessCompetitor(t)
    \/ AnalyzeCompetitors(t)
    \/ FindGaps(t)
    \/ Finally(t)

NextGui ==
    \/ StartAnalysis
    \/ StopAnalysis
    \/ RunCallback
    \/ \E t \in Threads : RunAnalysis(t)

SpecGui == InitGui /\ [][NextGui]_vars

\* Properties of find_missing_keywords
\* ------------------------------------------------------------------------
CompetitorTerms == {competitor_keywords[i].keyword : i \in 1..Len(competitor_keywords)}

UserKeys == IF Truthy(user_keywords) THEN user_keywords.keys ELSE <<>>

UserTerms == Range(UserKeys)

IsSemantic(record) == "gap_type" \in DOMAIN record /\ record.gap_type = "semantic"

IsUntagged(record) == "gap_type" \notin DOMAIN record

RecordsFor(k) ==
    {j \in 1..Len(missing_opportunities) : missing_opportunities[j].keyword = k}

SemanticRecordsFor(k) == {j \in RecordsFor(k) : IsSemantic(missing_opportunities[j])}

UntaggedRecordsFor(k) == {j \in RecordsFor(k) : IsUntagged(missing_opportunities[j])}

\* no user keyword reaches similarity_threshold against k
NoSimilarUserKeyword(k) ==
    \A j \in 1..Len(UserKeys) :
        semantic_similarity(k, UserKeys[j]) < similarity_threshold

\* C1: with the default similarity_threshold of 0.8, find_missing_keywords
\* returns exactly one record for each competitor keyword that is not a key
\* of user_keywords and no record for a competitor keyword that is one (for
\* the three competitor and two user keywords of the test: one record,
\* 'content strategy')
C1_OneRecordPerMissingKeyword ==
    (calls > 0 /\ similarity_threshold = DEFAULT_SIMILARITY_THRESHOLD) =>
        \A k \in CompetitorTerms :
            Cardinality(RecordsFor(k)) = IF k \in UserTerms THEN 0 ELSE 1

C3_RecordsAreGaps ==
    calls > 0 =>
        \A j \in 1..Len(missing_opportunities) :
            LET k == missing_opportunities[j].keyword
            IN  /\ k \in CompetitorTerms
                /\ k \notin UserTerms \/ NoSimilarUserKeyword(k)

\* a call returned a record for a keyword that is a user key (against which
\* no user keyword reaches the threshold) and a record for one that is not
C3_Witness ==
    /\ calls > 0
    /\ \E j \in 1..Len(missing_opportunities) :
           missing_opportunities[j].keyword \in UserTerms
    /\ \E j \in 1..Len(missing_opportunities) :
           /\ missing_opportunities[j].keyword \notin UserTerms
           /\ IsUntagged(missing_opportunities[j])

\* ------------------------------------------------------------------------
\* Properties of the scorer
\* ------------------------------------------------------------------------
InRange(score) == 0 <= score /\ score <= Fixed(100)

\* C4: for valid inputs calculate_opportunity_score returns a value in
\* [0,100], and so does the opportunity_score of the record
\* analyze_keyword_opportunity builds
C4_ScoreInRange ==
    /\ pc \in {"priority", "record", "done"} => InRange(opportunity_score)
    /\ pc = "done" => InRange(opportunity.opportunity_score)

\* a record was built whose five components all sit at their caps
C4_Witness ==
    /\ pc = "done"
    /\ competitor_data.frequency = MaxFrequency
    /\ competitor_data.document_frequency = MaxDocFrequency
    /\ competitor_data.avg_importance = Fixed(100)
    /\ opportunity.opportunity_score = Fixed(100)

RECURSIVE RelevanceSum(_, _)
\* sum over the user keywords in U of 3 * Jaccard(tokens(k), tokens(u))
RelevanceSum(k, U) ==
    IF U = {} THEN 0
    ELSE LET u == CHOOSE u \in U : TRUE
         IN  3 * Ratio(word_overlap(k, u), word_union(k, u))
               + RelevanceSum(k, U \ {u})

ExpectedScore ==
    LET f == competitor_data.frequency
        df == competitor_data.document_frequency
        imp == competitor_data.avg_importance
        R == Min(Fixed(15), RelevanceSum(arg_keyword, UserTerms))
    IN  Min(Fixed(100),
            Min(Fixed(2 * f), Fixed(30)) + Min(Fixed(5 * df), Fixed(25))
              + Min(imp \div 5, Fixed(20)) + Min(Fixed(2 * word_count(arg_keyword)), Fixed(10))
              + R)

\* C5: calculate_opportunity_score(f, df, imp, kw, user) equals
\* min(100, min(2f,30) + min(5df,25) + min(imp/5,20) + min(2*word_count,10) + R)
\* with R = min(15, sum over the user keywords u of 3*Jaccard(kw, u)) on
\* lowercase word sets, without the partial-match bonus, and R = 0 when there
\* are no user keywords
C5_ScoreFormula ==
    pc \in {"priority", "record", "done"} => opportunity_score = ExpectedScore

\* a score was computed for a keyword that shares a word with a user keyword
\* (where the partial-match bonus would count), the relevance below its cap
C5_Witness ==
    /\ pc = "priority"
    /\ arg_keyword = "seo strategy"
    /\ user_keywords = Dict(<<"seo optimization", "content strategy">>)
    /\ competitor_data = [frequency |-> 6, document_frequency |-> 3,
                          avg_importance |-> Fixed(80)]
    /\ opportunity_score = Fixed(49)

\* ------------------------------------------------------------------------
\* Properties of the order of the returned list
\* ------------------------------------------------------------------------
\* C6: the list find_missing_keywords returns is in non-increasing order of
\* opportunity_score
C6_SortedDescending ==
    calls > 0 =>
        \A i, j \in 1..Len(missing_opportunities) :
            i < j => missing_opportunities[i].opportunity_score
                       >= missing_opportunities[j].opportunity_score

ScoreOf(k) == missing_opportunities[CHOOSE j \in RecordsFor(k) : TRUE].opportunity_score

\* a call visited a directly missing keyword before one with a higher score
C6_Witness ==
    /\ calls > 0
    /\ Len(directly_missing) >= 2
    /\ ScoreOf(directly_missing[1]) < ScoreOf(directly_missing[2])

IndexIn(seq, k) == CHOOSE i \in 1..Len(seq) : seq[i] = k

\* position of a returned record in the list before it was sorted: the direct
\* records in the order the set was iterated, then the semantic ones
PositionBeforeSort(record) ==
    IF IsUntagged(record)
      THEN IndexIn(directly_missing, record.keyword)
      ELSE Len(directly_missing)
             + IndexIn([i \in 1..Len(semantic_gaps) |-> semantic_gaps[i].keyword],
                       record.keyword)

\* C7: the sort is stable: records of equal opportunity_score keep the order
\* of the concatenated list (direct records, then the semantic records in the
\* order of the competitor map), so an untagged record precedes the tagged
\* duplicate of its keyword and every direct record precedes every semantic
\* record of its score
C7_StableSort ==
    calls > 0 =>
        /\ \A a, b \in 1..Len(semantic_gaps) :
               a < b => IndexIn([i \in 1..Len(competitor_keywords) |->
                                    competitor_keywords[i].keyword],
                                semantic_gaps[a].keyword)
                          < IndexIn([i \in 1..Len(competitor_keywords) |->
                                        competitor_keywords[i].keyword],
                                    semantic_gaps[b].keyword)
        /\ \A i, j \in 1..Len(missing_opportunities) :
               (i < j /\ missing_opportunities[i].opportunity_score
                           = missing_opportunities[j].opportunity_score) =>
                   /\ PositionBeforeSort(missing_opportunities[i])
                        < PositionBeforeSort(missing_opportunities[j])
                   /\ ~(IsSemantic(missing_opportunities[i])
                          /\ IsUntagged(missing_opportunities[j]))

\* a call returned two direct records of equal score for different keywords,
\* and a semantic duplicate of one of them
C7_Witness ==
    /\ calls > 0
    /\ \E i, j \in 1..Len(missing_opportunities) :
           /\ i < j
           /\ IsUntagged(missing_opportunities[i])
           /\ IsUntagged(missing_opportunities[j])
           /\ missing_opportunities[i].opportunity_score
                = missing_opportunities[j].opportunity_score
           /\ Cardinality(SemanticRecordsFor(missing_opportunities[i].keyword)) = 1

\* C8: two calls of find_missing_keywords with identical arguments return
\* identical ordered lists, also when several directly missing keywords have
\* the same score and their order comes from iterating a set
C8_Deterministic ==
    calls >= 2 => missing_opportunities = previous_opportunities

\* C9: when user_keywords is empty or None, find_semantic_gaps returns no
\* record and find_missing_keywords returns exactly one record for each
\* competitor keyword, none of them tagged gap_type='semantic'
C9_EmptyUserKeywords ==
    (calls > 0 /\ ~Truthy(user_keywords)) =>
        /\ semantic_gaps = <<>>
        /\ Len(missing_opportunities) = Len(competitor_keywords)
        /\ \A k \in CompetitorTerms : Cardinality(RecordsFor(k)) = 1
        /\ \A j \in 1..Len(missing_opportunities) :
               IsUntagged(missing_opportunities[j])

\* a call was made with an empty user dict and several competitor keywords
C9_Witness ==
    /\ calls > 0
    /\ user_keywords = Dict(<<>>)
    /\ Len(competitor_keywords) >= 2
    /\ Len(missing_opportunities) = Len(competitor_keywords)

C11_PriorityMatchesScore ==
    \A j \in 1..Len(missing_opportunities) :
        missing_opportunities[j].priority
          = determine_priority(missing_opportunities[j].opportunity_score)

\* a call returned a semantic record whose relevance bonus lifted it to
\* 'medium' and a direct record that stayed 'low'
C11_Witness ==
    /\ calls > 0
    /\ \E i, j \in 1..Len(missing_opportunities) :
           /\ IsSemantic(missing_opportunities[i])
           /\ missing_opportunities[i].priority = "medium"
           /\ missing_opportunities[i].opportunity_score
                 > calculate_opportunity_score(
                       missing_opportunities[i].competitor_frequency,
                       missing_opportunities[i].found_in_sites,
                       missing_opportunities[i].avg_competitor_importance,
                       missing_opportunities[i].keyword, None)
           /\ IsUntagged(missing_opportunities[j])
           /\ missing_opportunities[j].priority = "low"

\* number of whitespace-separated tokens of a keyword
TokenCount(k) == Len(split(Characters[k]))

\* C12: the record analyze_keyword_opportunity builds for keyword k with
\* competitor stats s has keyword = k, competitor_frequency = s.frequency,
\* found_in_sites = s.document_frequency and word_count = the number of
\* whitespace-separated tokens of k, which is at least 1 (the keywords the
\* analyzer produces all have a token)
C12_RecordCopiesInputs ==
    pc = "done" =>
        /\ opportunity.keyword = arg_keyword
        /\ opportunity.competitor_frequency = competitor_data.frequency
        /\ opportunity.found_in_sites = competitor_data.document_frequency
        /\ opportunity.word_count = TokenCount(arg_keyword)
        /\ opportunity.word_count >= 1

\* a record was built for a keyword that repeats a word, with a frequency
\* different from the document frequency
C12_Witness ==
    /\ pc = "done"
    /\ TokenCount(arg_keyword) > Cardinality(WordSet(Characters[arg_keyword]))
    /\ competitor_data.frequency # competitor_data.document_frequency
    /\ opportunity.word_count = TokenCount(arg_keyword)

\* ------------------------------------------------------------------------
\* Properties of calculate_semantic_similarity
\* ------------------------------------------------------------------------
Tokens(k) == WordSet(Characters[k])

Jaccard(a, b) ==
    IF Tokens(a) \cup Tokens(b) = {}
      THEN 0
      ELSE Ratio(Cardinality(Tokens(a) \cap Tokens(b)),
                 Cardinality(Tokens(a) \cup Tokens(b)))

\* the pairs (wordA, wordB) of A \X B with one word a substring of the other
SubstringPairs(a, b) ==
    {p \in Tokens(a) \X Tokens(b) : IsSubstring(p[1], p[2]) \/ IsSubstring(p[2], p[1])}

ExpectedSimilarity(a, b) ==
    IF Tokens(a) = {} \/ Tokens(b) = {}
      THEN 0
      ELSE Min(Fixed(1),
               Jaccard(a, b)
                 + Min(Cardinality(SubstringPairs(a, b)) * Ratio(1, 10), Ratio(3, 10)))

\* C13: calculate_semantic_similarity(a, b) lies in [0,1] and equals
\* min(1.0, J + min(0.1 * P, 0.3)) with J the Jaccard index of the lowercase
\* token sets and P the number of pairs of A \X B with one word a substring
\* of the other; it is 0 when either token set is empty, and 0 when no token
\* is shared and no token is a substring of another
C13_SimilarityFormula ==
    pc = "done" =>
        /\ similarity = ExpectedSimilarity(arg_keyword1, arg_keyword2)
        /\ 0 <= similarity /\ similarity <= Fixed(1)
        /\ (Tokens(arg_keyword1) = {} \/ Tokens(arg_keyword2) = {}) => similarity = 0
        /\ (/\ Tokens(arg_keyword1) \cap Tokens(arg_keyword2) = {}
            /\ SubstringPairs(arg_keyword1, arg_keyword2) = {}) => similarity = 0

\* the similarity was computed for two keywords with more than three
\* substring pairs, so that the bonus met its cap, and came out below 1
C13_Witness ==
    /\ pc = "done"
    /\ Cardinality(SubstringPairs(arg_keyword1, arg_keyword2)) > 3
    /\ similarity = Jaccard(arg_keyword1, arg_keyword2) + Ratio(3, 10)
    /\ similarity < Fixed(1)

\* C14: calculate_semantic_similarity(a, a) = 1.0 for every keyword a that
\* has at least one token
C14_SelfSimilarityIsOne ==
    (/\ pc = "done"
     /\ arg_keyword1 = arg_keyword2
     /\ Tokens(arg_keyword1) # {}) => similarity = Fixed(1)

\* the similarity of a keyword of several words with itself was computed
C14_Witness ==
    /\ pc = "done"
    /\ arg_keyword1 = arg_keyword2
    /\ Cardinality(Tokens(arg_keyword1)) >= 2
    /\ similarity = Fixed(1)

PartialOverlap(a, b) ==
    /\ Tokens(a) \cap Tokens(b) # {}
    /\ Tokens(a) # Tokens(b)

\* C15: for two keywords that share a token but whose token sets are not
\* equal, calculate_semantic_similarity is strictly greater than 0 and
\* strictly less than 1
C15_PartialOverlapStrictlyInside ==
    (pc = "done" /\ PartialOverlap(arg_keyword1, arg_keyword2)) =>
        (0 < similarity /\ similarity < Fixed(1))

\* C15 as amended: for two keywords that share a token but whose token sets
\* are not equal, calculate_semantic_similarity is strictly greater than 0
\* and at most 1, and strictly less than 1 when the Jaccard index of the
\* token sets is below 0.7
C15_PartialOverlapAmended ==
    (pc = "done" /\ PartialOverlap(arg_keyword1, arg_keyword2)) =>
        /\ 0 < similarity
        /\ similarity <= Fixed(1)
        /\ Jaccard(arg_keyword1, arg_keyword2) < Ratio(7, 10) => similarity < Fixed(1)

\* the similarity of 'seo optimization' and 'seo strategy' was computed
C15_Witness ==
    /\ pc = "done"
    /\ arg_keyword1 = "seo optimization"
    /\ arg_keyword2 = "seo strategy"
    /\ PartialOverlap(arg_keyword1, arg_keyword2)
    /\ 0 < similarity /\ similarity < Fixed(1)

\* C16: calculate_semantic_similarity(a, b) = calculate_semantic_similarity(b, a)
C16_SimilaritySymmetric ==
    pc = "done" =>
        similarity = calculate_semantic_similarity(arg_keyword2, arg_keyword1)

\* the similarity was computed for two keywords that share no token, a
\* token of the first being contained in a token of the second
C16_Witness ==
    /\ pc = "done"
    /\ Tokens(arg_keyword1) \cap Tokens(arg_keyword2) = {}
    /\ \E p \in Tokens(arg_keyword1) \X Tokens(arg_keyword2) : IsSubstring(p[1], p[2])
    /\ similarity > 0

\* ------------------------------------------------------------------------
\* Properties of the classifiers
\* ------------------------------------------------------------------------
\* some indicator of the set occurs in the lowercased keyword as a substring
HasIndicator(k, indicators) ==
    \E indicator \in indicators :
        IsSubstring(Characters[indicator], lower(Characters[k]))

SameLetters(k1, k2) == lower(Characters[k1]) = lower(Characters[k2])

\* C17: classify_keyword_type returns 'commercial' when a commercial
\* indicator occurs in the lowercased keyword as a substring, else 'local'
\* when a local indicator does, else 'informational' when an informational
\* indicator does, else 'head' for one word, 'body' for two, 'long_tail' for
\* three or more; keywords that differ only in letter case get the same type
C17_TypeByIndicatorOrder ==
    "type" \in DOMAIN characteristics =>
        /\ IF HasIndicator(arg_keyword, commercial_indicators)
             THEN characteristics.type = "commercial"
           ELSE IF HasIndicator(arg_keyword, local_indicators)
             THEN characteristics.type = "local"
           ELSE IF HasIndicator(arg_keyword, informational_indicators)
             THEN characteristics.type = "informational"
           ELSE /\ TokenCount(arg_keyword) = 1 => characteristics.type = "head"
                /\ TokenCount(arg_keyword) = 2 => characteristics.type = "body"
                /\ TokenCount(arg_keyword) >= 3 => characteristics.type = "long_tail"
        /\ \A other \in ClassifierKeywords :
               SameLetters(other, arg_keyword) =>
                   classify_keyword_type(other) = characteristics.type

\* a keyword with a local and an informational indicator, and no commercial
\* one, was classified
C17_Witness ==
    /\ "type" \in DOMAIN characteristics
    /\ ~HasIndicator(arg_keyword, commercial_indicators)
    /\ HasIndicator(arg_keyword, local_indicators)
    /\ HasIndicator(arg_keyword, informational_indicators)
    /\ characteristics.type = "local"

\* C18: estimate_keyword_difficulty returns 'high' for a single word;
\* otherwise, when the lowercased keyword contains a competitive term, 'high'
\* for at most two words and 'medium' for three or more; otherwise 'low' for
\* four or more words; otherwise 'medium'; it returns nothing else
C18_DifficultyRules ==
    "difficulty" \in DOMAIN characteristics =>
        /\ characteristics.difficulty \in {"low", "medium", "high"}
        /\ IF TokenCount(arg_keyword) = 1
             THEN characteristics.difficulty = "high"
           ELSE IF HasIndicator(arg_keyword, competitive_terms)
             THEN /\ TokenCount(arg_keyword) <= 2 => characteristics.difficulty = "high"
                  /\ TokenCount(arg_keyword) >= 3 => characteristics.difficulty = "medium"
           ELSE IF TokenCount(arg_keyword) >= 4
             THEN characteristics.difficulty = "low"
           ELSE characteristics.difficulty = "medium"

\* the difficulty of a keyword of four or more words with a competitive
\* term was estimated
C18_Witness ==
    /\ "difficulty" \in DOMAIN characteristics
    /\ TokenCount(arg_keyword) >= 4
    /\ HasIndicator(arg_keyword, competitive_terms)
    /\ characteristics.difficulty = "medium"

\* C19: classify_search_intent returns 'transactional' when a transactional
\* indicator occurs in the lowercased keyword, else 'navigational' when a
\* navigational one does, else 'informational' when an informational one
\* does, else 'commercial'; a keyword containing 'buy' or 'purchase' has
\* type 'commercial' and intent 'transactional' at the same time
C19_IntentByIndicatorOrder ==
    "intent" \in DOMAIN characteristics =>
        /\ IF HasIndicator(arg_keyword, transactional_indicators)
             THEN characteristics.intent = "transactional"
           ELSE IF HasIndicator(arg_keyword, navigational_indicators)
             THEN characteristics.intent = "navigational"
           ELSE IF HasIndicator(arg_keyword, informational_indicators)
             THEN characteristics.intent = "informational"
           ELSE characteristics.intent = "commercial"
        /\ HasIndicator(arg_keyword, {"buy", "purchase"}) =>
               /\ characteristics.type = "commercial"
               /\ characteristics.intent = "transactional"

\* a keyword containing 'buy' and a navigational indicator was classified
C19_Witness ==
    /\ "intent" \in DOMAIN characteristics
    /\ HasIndicator(arg_keyword, {"buy"})
    /\ HasIndicator(arg_keyword, navigational_indicators)
    /\ characteristics.type = "commercial"
    /\ characteristics.intent = "transactional"

\* ------------------------------------------------------------------------
\* Properties of find_related_user_keywords
\* ------------------------------------------------------------------------
\* the plain Jaccard index of the scored keywords, tabulated once
JaccardTable == Tabulated([p \in ScoreKeywords \X ScoreKeywords |-> Jaccard(p[1], p[2])])

\* positions of the user keywords whose plain Jaccard index with k is >= 0.3
RelatedPositions(k) ==
    {i \in 1..Len(UserKeys) : JaccardTable[<<k, UserKeys[i]>>] >= Ratio(3, 10)}

\* the first n members of a set of positions
FirstPositions(I, n) == {i \in I : Cardinality({j \in I : j < i}) < n}

\* C20: find_related_user_keywords(k, user) returns at most 5 strings, the
\* first 5, in the order of the user map, of the user keywords whose plain
\* Jaccard index with k on lowercase token sets is >= 0.3; a user keyword
\* sharing no token with k is never returned; the result is empty when user
\* is empty
C20_RelatedAreFirstFive ==
    pc = "done" =>
        LET related == opportunity.related_user_keywords
            expected == Ascending(FirstPositions(RelatedPositions(arg_keyword), 5))
        IN  /\ Len(related) <= 5
            /\ related = [j \in 1..Len(expected) |-> UserKeys[expected[j]]]
            /\ \A j \in 1..Len(UserKeys) :
                   JaccardTable[<<arg_keyword, UserKeys[j]>>] = 0
                       => UserKeys[j] \notin Range(related)
            /\ UserKeys = <<>> => related = <<>>

\* related keywords were looked up among six user keywords that all qualify
C20_Witness ==
    /\ pc = "done"
    /\ Cardinality(RelatedPositions(arg_keyword)) > 5
    /\ Len(opportunity.related_user_keywords) = 5

\* ------------------------------------------------------------------------
\* Properties of generate_keyword_recommendations
\* ------------------------------------------------------------------------
NoRuleFires ==
    /\ competitor_data.frequency <= 10
    /\ competitor_data.document_frequency <= 3
    /\ keyword_characteristics(arg_keyword).type \in {"head", "body"}
    /\ keyword_characteristics(arg_keyword).intent \in {"commercial", "navigational"}

\* C21 as stated: generate_keyword_recommendations returns a non-empty list of
\* recommendation strings for every competitor keyword and its stats
C21_RecommendationsNonEmpty ==
    pc = "done" => Len(keyword_recommendations) > 0

\* C21 amended: the list holds between zero and four strings; it is empty
\* exactly when frequency <= 10, document_frequency <= 3, the keyword type is
\* head or body and the search intent is commercial or navigational; for
\* 'content strategy' (which is of type local) it is never empty
C21_RecommendationsUnlessNoRuleFires ==
    pc = "done" =>
        /\ Len(keyword_recommendations) <= 4
        /\ (keyword_recommendations = <<>>) <=> NoRuleFires
        /\ arg_keyword = "content strategy" => Len(keyword_recommendations) > 0

C21_Witness ==
    /\ pc = "done"
    /\ arg_keyword = "seo"
    /\ competitor_data = Stats(6, 3, 70)
    /\ keyword_recommendations = <<>>

\* ------------------------------------------------------------------------
\* Totality of find_missing_keywords
\* ------------------------------------------------------------------------
\* C22: on well-formed inputs find_missing_keywords and the helpers it calls
\* never raise, whether user_keywords is None, empty or non-empty and
\* whatever the threshold: every call returns its list
C22_NeverRaises ==
    calls > 0 =>
        /\ raised = NoError
        /\ \A i \in 1..Len(competitor_keywords) :
               find_related_user_keywords_raises(competitor_keywords[i].keyword,
                                                 user_keywords) = NoError
        /\ Len(missing_opportunities) >= Len(directly_missing)

\* a call that divided: a directly missing keyword shares a word with a user
\* keyword, and find_semantic_gaps analysed a keyword as well
C22_Witness ==
    /\ calls > 0
    /\ raised = NoError
    /\ Truthy(user_keywords)
    /\ semantic_gaps # <<>>
    /\ \E i \in 1..Len(directly_missing) :
           \E j \in 1..Len(user_keywords.keys) :
               word_overlap(directly_missing[i], user_keywords.keys[j]) > 0

\* ------------------------------------------------------------------------
\* Properties of generate_content_strategy
\* ------------------------------------------------------------------------
TopRecords == top_slice(arg_missing_keywords, arg_top_n)

CountOfPriority(p) ==
    Cardinality({i \in 1..Len(TopRecords) : TopRecords[i].priority = p})

\* C23: for a non-empty list generate_content_strategy returns, without
\* raising, a strategy whose total_opportunities is the length of the list
\* and whose priority_breakdown counts the records of each priority among
\* the first top_n, summing to min(len, top_n); for an empty list it returns
\* the 'No keyword opportunities found' message
C23_StrategyCountsTopRecords ==
    pc = "done" =>
        /\ strategy_raised = NoError
        /\ IF arg_missing_keywords = <<>>
             THEN strategy = [message |-> "No keyword opportunities found"]
             ELSE /\ strategy.total_opportunities = Len(arg_missing_keywords)
                  /\ strategy.priority_breakdown.high_priority = CountOfPriority("high")
                  /\ strategy.priority_breakdown.medium_priority = CountOfPriority("medium")
                  /\ strategy.priority_breakdown.low_priority = CountOfPriority("low")
                  /\ strategy.priority_breakdown.high_priority
                       + strategy.priority_breakdown.medium_priority
                       + strategy.priority_breakdown.low_priority
                       = Min(Len(arg_missing_keywords), arg_top_n)

\* ------------------------------------------------------------------------
\* Frame of find_missing_keywords
\* ------------------------------------------------------------------------
\* C24: a call of find_missing_keywords, with the scoring, classification and
\* similarity functions it runs, leaves competitor_keywords and user_keywords
\* (keys and stats) as they were, as well as the threshold and the
\* interpreter's seed; the list it returns is the one a first call computes
\* from these inputs, whatever calls came before
C24_NoSideEffects ==
    [][calls' = calls + 1 =>
          /\ competitor_keywords' = competitor_keywords
          /\ user_keywords' = user_keywords
          /\ similarity_threshold' = similarity_threshold
          /\ hash_seed' = hash_seed
          /\ missing_opportunities' =
                 sorted_opportunities(
                     opportunities_of(
                         directly_missing_keywords(competitor_keywords', user_keywords',
                                                   hash_seed'),
                         competitor_keywords', user_keywords'),
                     find_semantic_gaps(competitor_keywords', user_keywords',
                                        similarity_threshold'))]_vars

\* a second call in the same interpreter, after a call that built semantic
\* records, returned the list the first call returned
C24_Witness ==
    /\ calls > 1
    /\ hash_seed = FirstSeed
    /\ Truthy(user_keywords)
    /\ semantic_gaps # <<>>
    /\ missing_opportunities = previous_opportunities

\* ------------------------------------------------------------------------
\* Properties of analyze_multiple_texts
\* ------------------------------------------------------------------------
\* the texts (numbered from 0) whose analysis succeeded and holds keyword k
CountedTexts(k) ==
    {t \in 0..(Len(arg_texts) - 1) :
        /\ ~arg_texts[t + 1].raises
        /\ \E n \in 1..Len(arg_texts[t + 1].analysis) :
               arg_texts[t + 1].analysis[n].keyword = k}

FrequencyIn(t, k) ==
    LET analysis == arg_texts[t + 1].analysis
        n == CHOOSE n \in 1..Len(analysis) : analysis[n].keyword = k
    IN  analysis[n].frequency

RECURSIVE SumFrequency(_, _)
SumFrequency(T, k) ==
    IF T = {} THEN 0
    ELSE LET t == CHOOSE t \in T : TRUE
         IN  FrequencyIn(t, k) + SumFrequency(T \ {t}, k)

\* C25: for every keyword of the returned map, also when some texts raised
\* and were skipped: sources has no duplicate index, len(sources) equals
\* document_frequency, 1 <= document_frequency <= len(texts), every index
\* in sources is below len(texts), and frequency is the sum of the
\* frequencies in the documents counted
C25_SourcesMatchDocumentFrequency ==
    analyzer_pc = "done" =>
        \A n \in 1..Len(final_keywords) :
            LET data == final_keywords[n]
            IN  /\ \A a, b \in 1..Len(data.sources) :
                       a # b => data.sources[a] # data.sources[b]
                /\ Len(data.sources) = data.document_frequency
                /\ 1 <= data.document_frequency
                /\ data.document_frequency <= Len(arg_texts)
                /\ \A a \in 1..Len(data.sources) :
                       data.sources[a] >= 0 /\ data.sources[a] < Len(arg_texts)
                /\ data.document_frequency = Cardinality(CountedTexts(data.keyword))
                /\ data.frequency = SumFrequency(CountedTexts(data.keyword), data.keyword)

\* a call with two batches in which a text was skipped before a text that
\* was counted, and a keyword counted in two documents
C25_Witness ==
    /\ analyzer_pc = "done"
    /\ Len(arg_texts) > arg_batch_size
    /\ arg_texts[1].raises
    /\ \E n \in 1..Len(final_keywords) :
           /\ final_keywords[n].document_frequency > 1
           /\ final_keywords[n].sources[1] \notin CountedTexts(final_keywords[n].keyword)

\* ------------------------------------------------------------------------
\* The partial-match bonus of calculate_semantic_similarity
\* ------------------------------------------------------------------------
\* the keywords share exactly one token and no other token of one is a
\* substring of a token of the other
OneSharedTokenOnly(a, b) ==
    /\ Cardinality(Tokens(a) \cap Tokens(b)) = 1
    /\ SubstringPairs(a, b) = {<<w, w>> : w \in Tokens(a) \cap Tokens(b)}

\* C26 as stated: a substring relationship between a token of a and a token
\* of b is counted in both directions, so two keywords sharing exactly one
\* token and having no other substring-related tokens get a bonus of 0.2
C26_SharedTokenCountsTwice ==
    (pc = "done" /\ OneSharedTokenOnly(arg_keyword1, arg_keyword2)) =>
        similarity = Min(Fixed(1),
                         Jaccard(arg_keyword1, arg_keyword2) + 2 * PARTIAL_MATCH_BONUS)

\* C26 amended: the loop visits each pair (word1, word2) of words1 x words2
\* once and adds one match when word1 is in word2 or word2 is in word1, so a
\* pair contributes 0.1 whether the containment holds one way or both ways;
\* two keywords sharing exactly one token and having no other
\* substring-related tokens get a bonus of 0.1
C26_SubstringPairCountsOnce ==
    (pc = "done" /\ Cardinality(SubstringPairs(arg_keyword1, arg_keyword2)) = 1) =>
        /\ similarity = Min(Fixed(1),
                            Jaccard(arg_keyword1, arg_keyword2) + PARTIAL_MATCH_BONUS)
        /\ OneSharedTokenOnly(arg_keyword1, arg_keyword2) =>
               similarity # Jaccard(arg_keyword1, arg_keyword2) + 2 * PARTIAL_MATCH_BONUS

C26_Witness ==
    /\ pc = "done"
    /\ OneSharedTokenOnly(arg_keyword1, arg_keyword2)
    /\ Jaccard(arg_keyword1, arg_keyword2) = Ratio(1, 3)
    /\ similarity = Ratio(1, 3) + PARTIAL_MATCH_BONUS

\* ------------------------------------------------------------------------
\* Semantic records against direct records
\* ------------------------------------------------------------------------
\* C27: for similarity_threshold <= 1.0 and keywords with at least one
\* token, every record tagged gap_type='semantic' has a keyword that is
\* directly missing (a competitor key that is no user key), since a keyword
\* on both sides has similarity 1.0 with itself; so every semantic record
\* repeats a direct record of the same call, and no keyword appears more
\* than twice
C27_SemanticRepeatsDirect ==
    (calls > 0 /\ similarity_threshold <= Fixed(1)) =>
        /\ \A j \in 1..Len(missing_opportunities) :
               ~IsUntagged(missing_opportunities[j]) =>
                   /\ missing_opportunities[j].keyword \in CompetitorTerms \ UserTerms
                   /\ \E i \in 1..Len(missing_opportunities) :
                          /\ IsUntagged(missing_opportunities[i])
                          /\ tagged_semantic(missing_opportunities[i])
                               = missing_opportunities[j]
        /\ \A k \in CompetitorTerms : Cardinality(RecordsFor(k)) <= 2
        /\ \A k \in CompetitorTerms \cap UserTerms : RecordsFor(k) = {}

\* a call with the threshold at 1.0 and a keyword on both sides returned a
\* semantic record
C27_Witness ==
    /\ calls > 0
    /\ similarity_threshold = Fixed(1)
    /\ CompetitorTerms \cap UserTerms # {}
    /\ \E j \in 1..Len(missing_opportunities) :
           ~IsUntagged(missing_opportunities[j])

\* ------------------------------------------------------------------------
\* Properties of make_request
\* ------------------------------------------------------------------------
RequestFinished == request_pc \in {"returned", "raised"}

RetriesBounded ==
    /\ attempts <= MAX_RETRIES + 1
    /\ retry_count <= MAX_RETRIES + 1
    /\ Len(sleeps) = Min(retry_count, MAX_RETRIES)
    /\ \A n \in 1..Len(sleeps) :
           /\ sleeps[n].delay = Min(Seconds(300), Seconds(5) * (2 ^ (n - 1)))
           /\ sleeps[n].jitter >= 0
           /\ sleeps[n].jitter <= Seconds(1)
    /\ request_pc = "returned" =>
           /\ request_result = [kind |-> "response", attempt |-> attempts]
           /\ retry_count = attempts - 1
    /\ (request_pc = "raised" /\ request_result.kind = "RequestException") =>
           /\ attempts = MAX_RETRIES + 1
           /\ request_result.attempt = attempts
    /\ RequestFinished => request_result # NoResponse

\* C28: make_request makes at most max_retries + 1 attempts; it returns the
\* response of the first attempt that succeeds; before retry n it sleeps
\* min(300, retry_delay * 2^(n-1)) seconds plus a jitter; when every attempt
\* fails with a RequestException it raises the exception of the last attempt;
\* it always ends, by returning a response or by raising
C28_RetriesThenRaises == []RetriesBounded /\ <>RequestFinished

\* every attempt failed with a RequestException and the last one was raised
C28_Witness ==
    /\ request_pc = "raised"
    /\ request_result = [kind |-> "RequestException", attempt |-> MAX_RETRIES + 1]
    /\ Len(sleeps) = MAX_RETRIES
    /\ sleeps[MAX_RETRIES].delay = Seconds(20)

\* ------------------------------------------------------------------------
\* Properties of wait_for_rate_limit
\* ------------------------------------------------------------------------
\* the calls that returned in the rate_limit_window seconds that start at `from`
AdmittedWithin(from) ==
    {i \in 1..Len(admitted) : admitted[i] >= from /\ admitted[i] - from < Seconds(60)}

\* the entries of request_times that are inside the window that ends now
RecordedInWindow ==
    {i \in 1..Len(request_times) : now - request_times[i] < Seconds(60)}

\* C29: wait_for_rate_limit enforces a sliding window: no more than 10 calls
\* return within any 60 seconds, and request_times never holds more than 10
\* entries that are inside the current window
C29_SlidingWindowHolds ==
    /\ \A i \in 1..Len(admitted) : Cardinality(AdmittedWithin(admitted[i])) <= 10
    /\ Cardinality(RecordedInWindow) <= 10

\* ------------------------------------------------------------------------
\* Properties of the analysis threads
\* ------------------------------------------------------------------------
RunningThreads == {t \in Threads : is_alive(t)}

\* C30: at most one analysis thread runs at any time; the Start Analysis
\* button is enabled only while no run_analysis is running; and
\* stop_requested is never reset to False while a thread is still alive
C30_OneWorkerAtATime ==
    /\ [](Cardinality(RunningThreads) <= 1)
    /\ [](analyze_button = "normal" => RunningThreads = {})
    /\ [][(stop_requested /\ ~stop_requested') => RunningThreads = {}]_vars

====
